---- MODULE Spec2Model ----
(***************************************************************************)
(* Model of the ingestion core of cc-session-search:                      *)
(*   src/cc_session_search/core/conversation_parser.py                    *)
(*                                                                         *)
(* JSON values are tagged one-field records:                               *)
(*   [str |-> <<tokens>>]   a string, as a sequence of text chunks        *)
(*   [list |-> <<items>>]   a list                                        *)
(*   [dict |-> f]           an object, f a function from keys to values   *)
(*   [num |-> n]            a number                                      *)
(*   [bool |-> b]           true / false                                  *)
(*   [null |-> TRUE]        null / Python None                            *)
(* A Python str produced by the parser (ParsedMessage.content) is the bare *)
(* sequence of chunks.  A datetime is [dt |-> n, aware |-> b].             *)
(* cost_usd is kept exactly, as [milli, nano]: milli*1e-3 + nano*1e-9 USD. *)
(***************************************************************************)
EXTENDS Integers, Sequences, FiniteSets, TLC

VARIABLES raw, out, file, result, dir, batch,
          sessions, _cache_key, _tool_call_type_cache, threads

\* the state of the dashboard module and of its callers
dashboard == <<sessions, _cache_key, _tool_call_type_cache, threads>>

vars == <<raw, out, file, result, dir, batch, dashboard>>

(***************************************************************************)
(* JSON / Python value helpers                                             *)
(***************************************************************************)
None == [null |-> TRUE]

S(x) == [str |-> <<x>>]

JStr(t) == [str |-> t]

JList(l) == [list |-> l]

JDict(d) == [dict |-> d]

JNum(n) == [num |-> n]

JBool(b) == [bool |-> b]

EmptyDict == [dict |-> <<>>]

IsStr(v) == "str" \in DOMAIN v

IsList(v) == "list" \in DOMAIN v

IsDict(v) == "dict" \in DOMAIN v

IsNum(v) == "num" \in DOMAIN v

IsBool(v) == "bool" \in DOMAIN v

IsNone(v) == "null" \in DOMAIN v

IsDatetime(v) == "dt" \in DOMAIN v

\* `key in d` for a dict d
Has(d, key) == key \in DOMAIN d.dict

\* d.get(key, default) for a dict d
Get(d, key, default) == IF key \in DOMAIN d.dict THEN d.dict[key] ELSE default

\* d.get(key) for a dict d
GetOrNone(d, key) == Get(d, key, None)

\* Python truthiness
Truthy(v) ==
    IF IsStr(v) THEN Len(v.str) > 0
    ELSE IF IsList(v) THEN Len(v.list) > 0
    ELSE IF IsDict(v) THEN DOMAIN v.dict # {}
    ELSE IF IsNum(v) THEN v.num # 0
    ELSE IF IsBool(v) THEN v.bool
    ELSE IF IsDatetime(v) THEN TRUE
    ELSE FALSE

\* d with d[key] = value (dict item assignment)
SetItem(d, key, value) ==
    [dict |-> [k \in (DOMAIN d.dict) \cup {key} |-> IF k = key THEN value ELSE d.dict[k]]]

(***************************************************************************)
(* Text helpers: a str is a sequence of chunks; whitespace chunks are " "  *)
(* and "\n".                                                               *)
(***************************************************************************)
NL == "\n"

Whitespace == {" ", NL}

RECURSIVE Join(_, _)
\* sep.join(parts): parts is a sequence of strs, sep a str
Join(sep, parts) ==
    IF Len(parts) = 0 THEN <<>>
    ELSE IF Len(parts) = 1 THEN parts[1]
    ELSE parts[1] \o sep \o Join(sep, Tail(parts))

\* `not content.strip()`
StripIsEmpty(text) == \A i \in 1..Len(text) : text[i] \in Whitespace

\* needle occurs in text as a contiguous run of chunks
IsInfix(needle, text) ==
    \E i \in 0..(Len(text) - Len(needle)) :
        \A j \in 1..Len(needle) : text[i + j] = needle[j]

\* The order in which the keys of an object are rendered by str(dict).
KeyOrder == <<"type", "text", "thinking", "tool_use_id", "id", "name", "input",
              "file_path", "source", "content", "stdout", "agentId", "tool_name",
              "tool_calls">>

RECURSIVE PyRepr(_)
RECURSIVE ReprItems(_)
RECURSIVE ReprPairs(_, _)
\* repr(v) for a decoded JSON value
PyRepr(v) ==
    IF IsStr(v) THEN <<"'">> \o v.str \o <<"'">>
    ELSE IF IsNum(v) THEN <<ToString(v.num)>>
    ELSE IF IsBool(v) THEN <<IF v.bool THEN "True" ELSE "False">>
    ELSE IF IsList(v) THEN <<"[">> \o Join(<<", ">>, ReprItems(v.list)) \o <<"]">>
    ELSE IF IsDict(v) THEN <<"{">> \o Join(<<", ">>, ReprPairs(v.dict, 1)) \o <<"}">>
    ELSE <<"None">>

ReprItems(l) ==
    IF Len(l) = 0 THEN <<>> ELSE <<PyRepr(Head(l))>> \o ReprItems(Tail(l))

ReprPairs(d, i) ==
    IF i > Len(KeyOrder) THEN <<>>
    ELSE IF KeyOrder[i] \in DOMAIN d
         THEN <<(<<"'", KeyOrder[i], "': ">> \o PyRepr(d[KeyOrder[i]]))>> \o ReprPairs(d, i + 1)
         ELSE ReprPairs(d, i + 1)

\* str(v)
PyStr(v) == IF IsStr(v) THEN v.str ELSE PyRepr(v)

(***************************************************************************)
(* JSONLParser._extract_content                                            *)
(***************************************************************************)
RECURSIVE _extract_content(_)
RECURSIVE text_parts(_)
\* the text_parts list built by the loop over a content list
text_parts(blocks) ==
    IF Len(blocks) = 0 THEN <<>>
    ELSE LET block == Head(blocks)
             rest == text_parts(Tail(blocks))
         IN IF IsDict(block) THEN
                LET block_type == GetOrNone(block, "type") IN
                IF block_type = S("text") /\ Has(block, "text")
                    THEN <<block.dict["text"].str>> \o rest
                ELSE IF block_type = S("thinking") /\ Has(block, "thinking")
                    THEN <<(<<"[Thinking: ">> \o PyStr(block.dict["thinking"]) \o <<"]">>)>> \o rest
                ELSE IF Has(block, "content")
                    THEN <<_extract_content(block.dict["content"])>> \o rest
                ELSE rest
            ELSE IF IsStr(block) THEN <<block.str>> \o rest
            ELSE rest

\* _extract_content joining the parts of a list with a space
_extract_content_space_join(content) ==
    IF IsStr(content) THEN content.str
    ELSE IF IsList(content) THEN Join(<<" ">>, text_parts(content.list))
    ELSE IF IsDict(content) THEN
        LET block_type == GetOrNone(content, "type") IN
        IF block_type = S("text") /\ Has(content, "text")
            THEN content.dict["text"].str
        ELSE IF block_type = S("thinking") /\ Has(content, "thinking")
            THEN <<"[Thinking: ">> \o PyStr(content.dict["thinking"]) \o <<"]">>
        ELSE IF Has(content, "content")
            THEN _extract_content(content.dict["content"])
        ELSE PyStr(content)
    ELSE IF Truthy(content) THEN PyStr(content) ELSE <<>>

_extract_content(content) ==
    IF IsStr(content) THEN content.str
    ELSE IF IsList(content) THEN Join(<<NL>>, text_parts(content.list))
    ELSE IF IsDict(content) THEN
        LET block_type == GetOrNone(content, "type") IN
        IF block_type = S("text") /\ Has(content, "text")
            THEN content.dict["text"].str
        ELSE IF block_type = S("thinking") /\ Has(content, "thinking")
            THEN <<"[Thinking: ">> \o PyStr(content.dict["thinking"]) \o <<"]">>
        ELSE IF Has(content, "content")
            THEN _extract_content(content.dict["content"])
        ELSE PyStr(content)
    ELSE IF Truthy(content) THEN PyStr(content) ELSE <<>>

(***************************************************************************)
(* CLAUDE_PRICING: USD per million tokens, held in hundredths of a dollar. *)
(***************************************************************************)
DefaultModel == "claude-sonnet-4-5-20250929"

CLAUDE_PRICING ==
    [m \in {"claude-sonnet-4-5-20250929", "claude-3-5-sonnet-20241022",
            "claude-3-5-sonnet-20240620", "claude-3-opus-20240229",
            "claude-3-sonnet-20240229", "claude-3-haiku-20240307"} |->
        IF m = "claude-3-opus-20240229" THEN [input |-> 1500, output |-> 7500]
        ELSE IF m = "claude-3-haiku-20240307" THEN [input |-> 25, output |-> 125]
        ELSE [input |-> 300, output |-> 1500]]

\* CLAUDE_PRICING.get(model, CLAUDE_PRICING[default])
PricingFor(model) ==
    IF IsStr(model) /\ Len(model.str) = 1 /\ model.str[1] \in DOMAIN CLAUDE_PRICING
    THEN CLAUDE_PRICING[model.str[1]]
    ELSE CLAUDE_PRICING[DefaultModel]

\* An amount of money, exactly: milli * 1e-3 USD + nano * 1e-9 USD, nano < 1e6.
Money(milli, nano) == [milli |-> milli + (nano \div 1000000), nano |-> nano % 1000000]

ZeroCost == Money(0, 0)

MoneyAdd(a, b) == Money(a.milli + b.milli, a.nano + b.nano)

\* (tokens / 1_000_000) * price, for a price in hundredths of a dollar
PerMillion(tokens, price) ==
    Money((tokens \div 1000000) * price * 10, (tokens % 1000000) * price * 10)

\* (tokens / 1_000_000) * (price * 0.1), for a price in hundredths of a dollar
PerMillionTenth(tokens, price) ==
    Money((tokens \div 1000000) * price, (tokens % 1000000) * price)

\* the token / cost block charging every role as it charges assistants
Accounting_AnyRole(role, model, input_tokens, output_tokens, cache_creation_tokens, cache_read_tokens) ==
    LET pricing == PricingFor(model)
        counted == IsNum(input_tokens) /\ IsNum(output_tokens)
                   /\ IsNum(cache_creation_tokens) /\ IsNum(cache_read_tokens)
    IN  [token_count |-> IF counted THEN output_tokens ELSE JNum(0),
         cost_usd |-> IF counted
                      THEN MoneyAdd(MoneyAdd(PerMillion(input_tokens.num, pricing.input),
                                             PerMillion(output_tokens.num, pricing.output)),
                                    MoneyAdd(PerMillion(cache_creation_tokens.num, pricing.input),
                                             PerMillionTenth(cache_read_tokens.num, pricing.input)))
                      ELSE ZeroCost,
         input_tokens |-> input_tokens, output_tokens |-> output_tokens,
         cache_creation_tokens |-> cache_creation_tokens,
         cache_read_tokens |-> cache_read_tokens]

(***************************************************************************)
(* The token / cost block of _parse_message.  A usage field that is not a  *)
(* number makes a comparison or a division raise TypeError, which the      *)
(* inner try swallows: the assignments made before the raise are kept.     *)
(***************************************************************************)
Accounting(role, model, input_tokens, output_tokens, cache_creation_tokens, cache_read_tokens) ==
    LET asis == [token_count |-> JNum(0), cost_usd |-> ZeroCost,
                 input_tokens |-> input_tokens, output_tokens |-> output_tokens,
                 cache_creation_tokens |-> cache_creation_tokens,
                 cache_read_tokens |-> cache_read_tokens]
        zero == [token_count |-> JNum(0), cost_usd |-> ZeroCost,
                 input_tokens |-> JNum(0), output_tokens |-> JNum(0),
                 cache_creation_tokens |-> JNum(0), cache_read_tokens |-> JNum(0)]
        pricing == PricingFor(model)
    IN  IF role # S("assistant") THEN zero
        ELSE IF ~IsNum(input_tokens) THEN asis
        ELSE IF input_tokens.num <= 0 /\ ~IsNum(output_tokens) THEN asis
        ELSE IF input_tokens.num > 0 \/ output_tokens.num > 0 THEN
            IF ~IsNum(output_tokens) \/ ~IsNum(cache_creation_tokens) \/ ~IsNum(cache_read_tokens)
            THEN [asis EXCEPT !.token_count = output_tokens]
            ELSE [asis EXCEPT !.token_count = output_tokens,
                              !.cost_usd =
                                  MoneyAdd(MoneyAdd(PerMillion(input_tokens.num, pricing.input),
                                                    PerMillion(output_tokens.num, pricing.output)),
                                           MoneyAdd(PerMillion(cache_creation_tokens.num, pricing.input),
                                                    PerMillionTenth(cache_read_tokens.num, pricing.input)))]
        ELSE zero

(***************************************************************************)
(* datetime.fromisoformat(s.replace('Z', '+00:00')): None on ValueError.   *)
(* An ISO timestamp is <<"T<n>">> (naive) or <<"T<n>", "Z">> (aware).      *)
(***************************************************************************)
ISOInstant == [T1 |-> 1, T2 |-> 2, T3 |-> 3]

fromisoformat(s) ==
    IF Len(s) >= 1 /\ s[1] \in DOMAIN ISOInstant /\ (Len(s) = 1 \/ (Len(s) = 2 /\ s[2] = "Z"))
    THEN [dt |-> ISOInstant[s[1]], aware |-> (Len(s) = 2)]
    ELSE None

(***************************************************************************)
(* JSONLParser._parse_message                                              *)
(***************************************************************************)
\* any(block.get('type') == 'tool_result' for block in content if isinstance(block, dict))
HasToolResultBlock(content) ==
    \E i \in 1..Len(content.list) :
        IsDict(content.list[i]) /\ GetOrNone(content.list[i], "type") = S("tool_result")

\* positions of the tool_result blocks that carry a tool_use_id
ToolResultIdPositions(content) ==
    {i \in 1..Len(content.list) :
        /\ IsDict(content.list[i])
        /\ GetOrNone(content.list[i], "type") = S("tool_result")
        /\ Has(content.list[i], "tool_use_id")}

Min(set) == CHOOSE x \in set : \A y \in set : x <= y

\* [block for block in content if isinstance(block, dict) and block.get('type') == 'tool_use']
tool_use_blocks(content) ==
    SelectSeq(content.list, LAMBDA block : IsDict(block) /\ GetOrNone(block, "type") = S("tool_use"))

RECURSIVE tool_names(_)
tool_names(blocks) ==
    IF Len(blocks) = 0 THEN <<>>
    ELSE <<Get(Head(blocks), "name", S("unknown")).str>> \o tool_names(Tail(blocks))

\* the placeholder content for a message that only calls tools
CallingPlaceholder(blocks) ==
    IF Len(blocks) = 1
    THEN <<"[Calling tool: ">> \o tool_names(blocks)[1] \o <<"]">>
    ELSE <<"[Calling ", ToString(Len(blocks)), " tools: ">>
            \o Join(<<", ">>, tool_names(blocks)) \o <<"]">>

\* Reclassify without the toolUseResult test
Reclassify_BlocksOnly(role, message_data, raw_msg) ==
    LET content == GetOrNone(message_data, "content")
        is_tool_response == role = S("user") /\ IsList(content) /\ HasToolResultBlock(content)
    IN IF is_tool_response THEN S("tool") ELSE role

\* role after the tool-response reclassification
Reclassify(role, message_data, raw_msg) ==
    LET content == GetOrNone(message_data, "content")
        is_tool_response ==
            \/ role = S("user") /\ IsList(content) /\ HasToolResultBlock(content)
            \/ role = S("user") /\ Has(raw_msg, "toolUseResult")
    IN IF is_tool_response THEN S("tool") ELSE role

\* tool_uses and the (possibly replaced) content
ExtractToolUses(raw_msg, message_data, content) ==
    LET raw_content == GetOrNone(message_data, "content") IN
    IF Has(raw_msg, "toolUseResult") THEN
        LET payload == raw_msg.dict["toolUseResult"]
            ids == IF IsList(raw_content) THEN ToolResultIdPositions(raw_content) ELSE {}
        IN  IF ids = {} THEN [tool_uses |-> payload, content |-> content]
            ELSE [tool_uses |-> SetItem(IF IsDict(payload) THEN payload ELSE EmptyDict,
                                        "tool_use_id",
                                        raw_content.list[Min(ids)].dict["tool_use_id"]),
                  content |-> content]
    ELSE IF IsList(raw_content) /\ Len(tool_use_blocks(raw_content)) > 0 THEN
        [tool_uses |-> JDict([tool_calls |-> JList(tool_use_blocks(raw_content))]),
         content |-> IF StripIsEmpty(content)
                     THEN CallingPlaceholder(tool_use_blocks(raw_content))
                     ELSE content]
    ELSE [tool_uses |-> None, content |-> content]

\* The result is a ParsedMessage record, or None when the body raised and the
\* handler at the end of _parse_message returned None.
_parse_message(raw_msg, metadata) ==
    IF ~IsDict(raw_msg) THEN None                 \* raw_msg.get: AttributeError
    ELSE
    LET msg_type == Get(raw_msg, "type", S("unknown"))
        is_summary == (msg_type = S("summary"))
        msg_uuid == IF is_summary THEN Get(raw_msg, "leafUuid", S("uuid4"))
                    ELSE Get(raw_msg, "uuid", S("uuid4"))
        has_ts == Has(raw_msg, "timestamp") /\ Truthy(raw_msg.dict["timestamp"])
        timestamp ==
            IF has_ts THEN
                (IF IsStr(raw_msg.dict["timestamp"])
                 THEN fromisoformat(raw_msg.dict["timestamp"].str) ELSE None)
            ELSE IF is_summary /\ Truthy(metadata.started_at) THEN metadata.started_at
            ELSE None
        message_data == IF is_summary
                        THEN JDict([content |-> Get(raw_msg, "summary", JStr(<<>>))])
                        ELSE Get(raw_msg, "message", EmptyDict)
    IN
    IF has_ts /\ ~IsStr(raw_msg.dict["timestamp"]) THEN None   \* .replace: AttributeError
    ELSE IF ~IsDict(message_data) THEN None                    \* message_data.get: AttributeError
    ELSE
    LET derived == IF is_summary THEN S("summary") ELSE Get(message_data, "role", msg_type)
        role == Reclassify(derived, message_data, raw_msg)
        flat == _extract_content(Get(message_data, "content", JStr(<<>>)))
        tu == ExtractToolUses(raw_msg, message_data, flat)
        is_meta == Get(raw_msg, "isMeta", JBool(FALSE))
        model == Get(message_data, "model", S(DefaultModel))
        usage == Get(message_data, "usage", EmptyDict)
    IN
    IF ~IsDict(usage) THEN None                                \* usage.get: AttributeError
    ELSE
    LET acc == Accounting(role, model,
                          Get(usage, "input_tokens", JNum(0)),
                          Get(usage, "output_tokens", JNum(0)),
                          Get(usage, "cache_creation_input_tokens", JNum(0)),
                          Get(usage, "cache_read_input_tokens", JNum(0)))
    IN [uuid |-> msg_uuid,
        role |-> role,
        content |-> tu.content,
        timestamp |-> timestamp,
        tool_uses |-> tu.tool_uses,
        metadata |-> [original_type |-> msg_type,
                      cwd |-> GetOrNone(raw_msg, "cwd"),
                      git_branch |-> GetOrNone(raw_msg, "gitBranch"),
                      is_meta |-> is_meta,
                      model |-> model],
        token_count |-> acc.token_count,
        cost_usd |-> acc.cost_usd,
        input_tokens |-> acc.input_tokens,
        output_tokens |-> acc.output_tokens,
        cache_creation_tokens |-> acc.cache_creation_tokens,
        cache_read_tokens |-> acc.cache_read_tokens]

(***************************************************************************)
(* Lines of a file.  A line is blank (n whitespace characters), the text   *)
(* of a JSON value, text that json.loads rejects with JSONDecodeError, or  *)
(* text nested deeper than the interpreter's recursion limit, on which     *)
(* json.loads raises RecursionError (which is not a JSONDecodeError).      *)
(***************************************************************************)
BlankLine(n) == [blank |-> n]

JsonLine(v) == [json |-> v]

MalformedLine == [malformed |-> TRUE]

DeepLine == [deep |-> TRUE]

\* json.loads(line)
json_loads(line) ==
    IF "json" \in DOMAIN line THEN [ok |-> line.json]
    ELSE IF "malformed" \in DOMAIN line THEN [exc |-> "JSONDecodeError"]
    ELSE [exc |-> "RecursionError"]

RECURSIVE ReadLines(_, _)
\* the read loop of parse_conversation_file: `except json.JSONDecodeError`
\* skips the line, any other exception is logged and re-raised
ReadLines(lines, raw_messages) ==
    IF Len(lines) = 0 THEN [status |-> "ok", raw_messages |-> raw_messages]
    ELSE IF "blank" \in DOMAIN Head(lines) THEN ReadLines(Tail(lines), raw_messages)
    ELSE LET r == json_loads(Head(lines)) IN
         IF "ok" \in DOMAIN r THEN ReadLines(Tail(lines), Append(raw_messages, r.ok))
         ELSE IF r.exc = "JSONDecodeError" THEN ReadLines(Tail(lines), raw_messages)
         ELSE [status |-> "raised", error |-> r.exc, raw_messages |-> raw_messages]

(***************************************************************************)
(* JSONLParser._extract_conversation_metadata                              *)
(***************************************************************************)
\* str.lower() on one chunk
Lower(chunk) ==
    IF chunk = "Explore" THEN "explore"
    ELSE IF chunk = "Plan" THEN "plan"
    ELSE IF chunk = "Documentation" THEN "documentation"
    ELSE IF chunk = "listResources" THEN "listresources"
    ELSE IF chunk = "readResource" THEN "readresource"
    ELSE IF chunk = "List" THEN "list"
    ELSE IF chunk = "<System-Reminder>" THEN "<system-reminder>"
    ELSE chunk

\* `keyword in text.lower()`
KeywordIn(keyword, text) == \E i \in 1..Len(text) : Lower(text[i]) = keyword

\* the agent type inferred from the first text block of a content list
InferAgentType(content, agent_type) ==
    LET texts == {i \in 1..Len(content.list) :
                    IsDict(content.list[i]) /\ GetOrNone(content.list[i], "type") = S("text")}
    IN IF texts = {} THEN agent_type
       ELSE LET text == Get(content.list[Min(texts)], "text", JStr(<<>>)).str IN
            IF KeywordIn("explore", text) \/ KeywordIn("exploration", text) THEN S("Explore")
            ELSE IF KeywordIn("plan", text) THEN S("Plan")
            ELSE IF KeywordIn("claude code", text) \/ KeywordIn("documentation", text)
                THEN S("claude-code-guide")
            ELSE agent_type

ScanStart ==
    [git_branch |-> None, working_directory |-> None, is_subagent |-> FALSE,
     parent_session_id |-> None, agent_id |-> None, agent_type |-> None]

\* one iteration of the scan loop, before its break test; [exc |-> e] when
\* it raises
ScanOne(msg, st) ==
    IF ~IsDict(msg) THEN [exc |-> IF IsNum(msg) \/ IsBool(msg) \/ IsNone(msg)
                                  THEN "TypeError" ELSE "AttributeError"]
    ELSE
    LET st1 == [st EXCEPT
                  !.git_branch = IF Has(msg, "gitBranch") /\ Truthy(msg.dict["gitBranch"])
                                 THEN msg.dict["gitBranch"] ELSE @,
                  !.working_directory = IF Has(msg, "cwd") /\ Truthy(msg.dict["cwd"])
                                        THEN msg.dict["cwd"] ELSE @]
    IN
    IF Truthy(GetOrNone(msg, "isSidechain")) /\ Truthy(GetOrNone(msg, "agentId")) THEN
        LET message_data == Get(msg, "message", EmptyDict) IN
        IF ~IsDict(message_data) THEN [exc |-> "AttributeError"]
        ELSE
        LET st2 == [st1 EXCEPT !.is_subagent = TRUE,
                               !.agent_id = GetOrNone(msg, "agentId"),
                               !.parent_session_id = GetOrNone(msg, "sessionId")]
            content == Get(message_data, "content", JList(<<>>))
        IN IF GetOrNone(message_data, "role") = S("assistant") /\ IsList(content)
           THEN [st2 EXCEPT !.agent_type = InferAgentType(content, @)]
           ELSE st2
    ELSE st1

RECURSIVE Scan(_, _)
\* the scan loop over raw_messages
Scan(raw_messages, st) ==
    IF Len(raw_messages) = 0 THEN st
    ELSE LET st1 == ScanOne(Head(raw_messages), st) IN
         IF "exc" \in DOMAIN st1 THEN st1
         ELSE IF Truthy(st1.git_branch) /\ (~st1.is_subagent \/ Truthy(st1.agent_type))
              THEN st1
         ELSE Scan(Tail(raw_messages), st1)

\* a ConversationMetadata, or [exc |-> e] when the scan raises
_extract_conversation_metadata(f, raw_messages) ==
    LET st == Scan(raw_messages, ScanStart) IN
    IF "exc" \in DOMAIN st THEN st
    ELSE [project_name |-> f.project,
          project_path |-> f.project,
          session_id |-> f.name,
          git_branch |-> st.git_branch,
          started_at |-> None,
          ended_at |-> None,
          working_directory |-> st.working_directory,
          message_count |-> 0,
          file_path |-> <<f.project, f.name>>,
          is_subagent |-> st.is_subagent,
          parent_session_id |-> st.parent_session_id,
          agent_id |-> st.agent_id,
          agent_type |-> st.agent_type,
          subagent_ids |-> <<>>]

(***************************************************************************)
(* JSONLParser._fix_missing_timestamps                                     *)
(***************************************************************************)
\* datetime.fromtimestamp(st_mtime): a naive datetime
file_mtime(f) == [dt |-> f.mtime, aware |-> FALSE]

RECURSIVE FixFrom_MtimeOnly(_, _, _)
\* the repair loop that never looks at the following messages
FixFrom_MtimeOnly(messages, i, mtime) ==
    IF i > Len(messages) THEN messages
    ELSE IF IsNone(messages[i].timestamp) THEN
        FixFrom_MtimeOnly([messages EXCEPT ![i] = [messages[i] EXCEPT !.timestamp = mtime]],
                          i + 1, mtime)
    ELSE FixFrom_MtimeOnly(messages, i + 1, mtime)

RECURSIVE FixFrom_NextOnly(_, _, _)
\* the repair loop that copies the timestamp of the next message, set or
\* not, and uses the modification time for the last message only
FixFrom_NextOnly(messages, i, mtime) ==
    IF i > Len(messages) THEN messages
    ELSE IF IsNone(messages[i].timestamp) THEN
        LET fallback_time == IF i = Len(messages) THEN mtime ELSE messages[i + 1].timestamp
        IN FixFrom_NextOnly([messages EXCEPT ![i] = [messages[i] EXCEPT !.timestamp = fallback_time]],
                            i + 1, mtime)
    ELSE FixFrom_NextOnly(messages, i + 1, mtime)

\* the replacement built without the four token-breakdown fields, which
\* then have the defaults of the dataclass
ReplacedMessage_NoBreakdown(msg, fallback_time) ==
    [uuid |-> msg.uuid,
     role |-> msg.role,
     content |-> msg.content,
     timestamp |-> fallback_time,
     tool_uses |-> msg.tool_uses,
     metadata |-> msg.metadata,
     token_count |-> msg.token_count,
     cost_usd |-> msg.cost_usd,
     input_tokens |-> JNum(0),
     output_tokens |-> JNum(0),
     cache_creation_tokens |-> JNum(0),
     cache_read_tokens |-> JNum(0)]

\* ParsedMessage(uuid=msg.uuid, ..., timestamp=fallback_time, ...): the new
\* message the repair puts in the place of msg
ReplacedMessage(msg, fallback_time) ==
    [uuid |-> msg.uuid,
     role |-> msg.role,
     content |-> msg.content,
     timestamp |-> fallback_time,
     tool_uses |-> msg.tool_uses,
     metadata |-> msg.metadata,
     token_count |-> msg.token_count,
     cost_usd |-> msg.cost_usd,
     input_tokens |-> msg.input_tokens,
     output_tokens |-> msg.output_tokens,
     cache_creation_tokens |-> msg.cache_creation_tokens,
     cache_read_tokens |-> msg.cache_read_tokens]

RECURSIVE FixFrom(_, _, _)
\* the loop body for index i and on, on the list being rewritten in place
FixFrom(messages, i, mtime) ==
    IF i > Len(messages) THEN messages
    ELSE IF IsNone(messages[i].timestamp) THEN
        LET later == {j \in (i + 1)..Len(messages) : Truthy(messages[j].timestamp)}
            fallback_time == IF later = {} THEN mtime ELSE messages[Min(later)].timestamp
        IN FixFrom([messages EXCEPT ![i] = ReplacedMessage(messages[i], fallback_time)],
                   i + 1, mtime)
    ELSE FixFrom(messages, i + 1, mtime)

_fix_missing_timestamps(messages, f) ==
    IF Len(messages) = 0 THEN messages ELSE FixFrom(messages, 1, file_mtime(f))

\* What the list object handed to _fix_missing_timestamps holds after the
\* call: the loop assigns messages[i] on the list it was given and returns
\* that list, so the caller's list and the returned list are one object.
ArgumentAfterRepair(messages, f) == _fix_missing_timestamps(messages, f)

(***************************************************************************)
(* JSONLParser.parse_conversation_file                                     *)
(***************************************************************************)
RECURSIVE ParseRecords_StopAtFirstFailure(_, _)
\* the parse loop leaving at the first record that fails to normalize
ParseRecords_StopAtFirstFailure(raw_messages, metadata) ==
    IF Len(raw_messages) = 0 THEN <<>>
    ELSE LET parsed_msg == _parse_message(Head(raw_messages), metadata) IN
         IF IsNone(parsed_msg) THEN <<>>
         ELSE <<parsed_msg>> \o ParseRecords_StopAtFirstFailure(Tail(raw_messages), metadata)

RECURSIVE ParseRecords(_, _)
\* the parse loop: a record whose _parse_message gives None is skipped
ParseRecords(raw_messages, metadata) ==
    IF Len(raw_messages) = 0 THEN <<>>
    ELSE LET parsed_msg == _parse_message(Head(raw_messages), metadata) IN
         IF IsNone(parsed_msg) THEN ParseRecords(Tail(raw_messages), metadata)
         ELSE <<parsed_msg>> \o ParseRecords(Tail(raw_messages), metadata)

\* [msg.timestamp for msg in messages if msg.timestamp]
Timestamps(messages) ==
    {messages[i].timestamp : i \in {j \in 1..Len(messages) : Truthy(messages[j].timestamp)}}

\* min() / max() compare an offset-naive with an offset-aware datetime
MixedAwareness(timestamps) == \E a, b \in timestamps : a.aware # b.aware

MinTime(timestamps) == CHOOSE t \in timestamps : \A u \in timestamps : t.dt <= u.dt

MaxTime(timestamps) == CHOOSE t \in timestamps : \A u \in timestamps : t.dt >= u.dt

\* the metadata update that never fills in message_count
FinalizeMetadata_NoCount(metadata, messages) ==
    IF Len(messages) = 0 THEN metadata
    ELSE LET timestamps == {messages[i].timestamp : i \in 1..Len(messages)} \ {None} IN
         IF timestamps = {} THEN metadata
         ELSE IF \E a, b \in timestamps : a.aware # b.aware THEN [exc |-> "TypeError"]
         ELSE [metadata EXCEPT !.started_at = CHOOSE t \in timestamps :
                                                  \A u \in timestamps : t.dt <= u.dt,
                               !.ended_at = CHOOSE t \in timestamps :
                                                \A u \in timestamps : t.dt >= u.dt]

\* the metadata update that takes the times of the first and the last message
FinalizeMetadata_FirstLast(metadata, messages) ==
    IF Len(messages) = 0 THEN metadata
    ELSE LET timestamps == Timestamps(messages) IN
         IF timestamps = {} THEN [metadata EXCEPT !.message_count = Len(messages)]
         ELSE IF MixedAwareness(timestamps) THEN [exc |-> "TypeError"]
         ELSE [metadata EXCEPT !.message_count = Len(messages),
                               !.started_at = messages[1].timestamp,
                               !.ended_at = messages[Len(messages)].timestamp]

\* the metadata update after the repair; [exc |-> e] when min/max raise
FinalizeMetadata(metadata, messages) ==
    IF Len(messages) = 0 THEN metadata
    ELSE LET timestamps == Timestamps(messages) IN
         IF timestamps = {} THEN [metadata EXCEPT !.message_count = Len(messages)]
         ELSE IF MixedAwareness(timestamps) THEN [exc |-> "TypeError"]
         ELSE [metadata EXCEPT !.message_count = Len(messages),
                               !.started_at = MinTime(timestamps),
                               !.ended_at = MaxTime(timestamps)]

\* parse_conversation_file from the metadata update on
AfterRepair(raw_messages, messages, final) ==
    IF "exc" \in DOMAIN final
        THEN [status |-> "raised", error |-> final.exc, stage |-> "finalize",
              raw_messages |-> raw_messages]
    ELSE [status |-> "ok", metadata |-> final, messages |-> messages,
          raw_messages |-> raw_messages]

\* parse_conversation_file once the messages are parsed and repaired
AfterParse(raw_messages, metadata, messages) ==
    AfterRepair(raw_messages, messages, FinalizeMetadata(metadata, messages))

\* parse_conversation_file once the metadata is extracted
AfterMetadata(f, raw_messages, metadata) ==
    IF "exc" \in DOMAIN metadata
        THEN [status |-> "raised", error |-> metadata.exc, stage |-> "metadata",
              raw_messages |-> raw_messages]
    ELSE AfterParse(raw_messages, metadata,
                    _fix_missing_timestamps(ParseRecords(raw_messages, metadata), f))

\* parse_conversation_file once the lines are read
AfterRead(f, read) ==
    IF read.status = "raised"
        THEN [status |-> "raised", error |-> read.error, stage |-> "read",
              raw_messages |-> read.raw_messages]
    ELSE IF Len(read.raw_messages) = 0
        THEN [status |-> "raised", error |-> "ValueError", stage |-> "empty",
              raw_messages |-> read.raw_messages]
    ELSE AfterMetadata(f, read.raw_messages,
                       _extract_conversation_metadata(f, read.raw_messages))

\* The outcome of parse_conversation_file on file f: status "ok" with the
\* returned (metadata, messages), or status "raised" with the exception and
\* the stage it escaped from.  raw_messages is the local list at exit.
parse_conversation_file(f) == AfterRead(f, ReadLines(f.lines, <<>>))

(***************************************************************************)
(* parse_conversation_files / parse_conversation_files_grouped             *)
(***************************************************************************)
\* message.metadata['conversation_session_id'] = session_id
Tag(message, session_id) ==
    [message EXCEPT !.metadata = [conversation_session_id |-> session_id] @@ @]

TagAll(messages, session_id) == [i \in 1..Len(messages) |-> Tag(messages[i], session_id)]

RECURSIVE CollectFiles_AbortOnFailure(_, _, _)
\* the loop of parse_conversation_files leaving at the first file that fails
CollectFiles_AbortOnFailure(files, all_conversations, all_messages) ==
    IF Len(files) = 0
    THEN [all_conversations |-> all_conversations, all_messages |-> all_messages]
    ELSE LET parsed == parse_conversation_file(Head(files)) IN
         IF parsed.status = "raised"
         THEN [all_conversations |-> all_conversations, all_messages |-> all_messages]
         ELSE CollectFiles_AbortOnFailure(Tail(files),
                           Append(all_conversations, parsed.metadata),
                           all_messages \o TagAll(parsed.messages, parsed.metadata.session_id))

RECURSIVE CollectFiles(_, _, _)
\* one pass of the loop body of parse_conversation_files on the outcome of
\* parse_conversation_file: a file whose parse raises is logged and skipped
CollectParsed(parsed, files, all_conversations, all_messages) ==
    IF parsed.status = "raised"
    THEN CollectFiles(files, all_conversations, all_messages)
    ELSE CollectFiles(files,
                      Append(all_conversations, parsed.metadata),
                      all_messages \o TagAll(parsed.messages, parsed.metadata.session_id))

\* the loop of parse_conversation_files over the .jsonl files
CollectFiles(files, all_conversations, all_messages) ==
    IF Len(files) = 0
    THEN [all_conversations |-> all_conversations, all_messages |-> all_messages]
    ELSE CollectParsed(parse_conversation_file(Head(files)), Tail(files),
                       all_conversations, all_messages)

parse_conversation_files(directory) == CollectFiles(directory, <<>>, <<>>)

RECURSIVE parse_conversation_files_grouped(_)
\* one pass of the loop body of parse_conversation_files_grouped
GroupParsed(parsed, files) ==
    IF parsed.status = "raised"
    THEN parse_conversation_files_grouped(files)
    ELSE <<(<<parsed.metadata, parsed.messages>>)>>
            \o parse_conversation_files_grouped(files)

parse_conversation_files_grouped(directory) ==
    IF Len(directory) = 0 THEN <<>>
    ELSE GroupParsed(parse_conversation_file(Head(directory)), Tail(directory))

(***************************************************************************)
(* Inputs of the normalizer: decoded records, drawn from bounded sets.     *)
(***************************************************************************)
\* longest content list
MaxBlocks == 2

\* largest small token count (the large one is Million)
MaxTok == 1

Million == 1000000

\* the sets of objects {} and {key: v} for v in values
Opt(key, values) == {<<>>} \cup {key :> v : v \in values}

\* the sets of objects {key: v} for v in values
Req(key, values) == {key :> v : v \in values}

TextBlock(t) == JDict([type |-> S("text"), text |-> JStr(t)])

ThinkingBlock(t) == JDict([type |-> S("thinking"), thinking |-> JStr(t)])

ToolUseBlock(name, id) == JDict([type |-> S("tool_use"), id |-> S(id), name |-> S(name)])

ImageBlock == JDict([type |-> S("image"), source |-> S("s")])

LeafBlocks ==
    {TextBlock(<<"A">>), TextBlock(<<"B">>), TextBlock(<<" ">>), ThinkingBlock(<<"T">>),
     ToolUseBlock("Bash", "t1"), JDict([type |-> S("tool_use"), id |-> S("t2")]),
     ImageBlock, JDict([type |-> S("tool_result"), tool_use_id |-> S("x")])}

NestedContents ==
    {JStr(<<"A">>), JStr(<<>>), None, ImageBlock, TextBlock(<<"A">>),
     JList(<<TextBlock(<<"A">>)>>), JList(<<ImageBlock>>)}

ToolResultBlocks ==
    {JDict(f @@ g @@ [type |-> S("tool_result")]) :
        f \in Req("tool_use_id", {S("x")}), g \in Req("content", NestedContents)}
    \cup {JDict([type |-> S("tool_result"), content |-> JStr(<<"A">>)])}

Blocks == LeafBlocks \cup ToolResultBlocks

ContentItems == Blocks \cup {JStr(<<"plain">>)}

ContentLists == UNION {[1..n -> ContentItems] : n \in 0..MaxBlocks}

\* content values other than lists of two or more items
ContentValues ==
    {JStr(<<"A">>), JStr(<<>>), JNum(5), JNum(0), None}
    \cup Blocks \cup {JList(l) : l \in {c \in ContentLists : Len(c) <= 1}}

\* content lists of two or more items
LongContents == {JList(l) : l \in {c \in ContentLists : Len(c) >= 2}}

RecordTypes == {S("user"), S("assistant"), S("system"), S("summary"), S("file-history-snapshot")}

Roles == {S("user"), S("assistant"), S("system")}

Payloads == {JDict([stdout |-> S("o")]), JList(<<S("o")>>), S("Error")}

TokenCounts == {JNum(n) : n \in 0..MaxTok} \cup {JNum(Million)}

Models == {S("claude-3-haiku-20240307"), S("claude-3-opus-20240229"), S("unknown-model")}

\* records that vary in type, role, content and toolUseResult
ShapeInputs ==
    {JDict(t @@ m @@ r @@ s) :
        t \in Opt("type", RecordTypes),
        m \in Opt("message", {S("oops"), None}
                    \cup {JDict(ro @@ c) : ro \in Opt("role", Roles),
                                           c \in Opt("content", ContentValues)}),
        r \in Opt("toolUseResult", Payloads),
        s \in Opt("summary", {JStr(<<"Sum">>)})}

\* a user or assistant record with a content list and perhaps a toolUseResult
ListRecord(t, ro, c, r) == JDict(t @@ r @@ [message |-> JDict(ro @@ [content |-> c])])

\* records that vary in role, model and usage
UsageInputs ==
    {JDict(r @@ [type |-> t, message |-> JDict(ro @@ mo @@ u @@ [content |-> JStr(<<"A">>)])]) :
        t \in {S("user"), S("assistant"), S("summary")},
        r \in Opt("toolUseResult", {JDict([stdout |-> S("o")])}),
        ro \in Opt("role", {S("user"), S("assistant")}),
        mo \in Opt("model", Models),
        u \in Opt("usage", {None}
                    \cup {JDict(i @@ o @@ cc @@ cr) :
                            i \in Opt("input_tokens", TokenCounts \cup {None}),
                            o \in Opt("output_tokens", TokenCounts \cup {None}),
                            cc \in Opt("cache_creation_input_tokens", {JNum(0), JNum(Million)}),
                            cr \in Opt("cache_read_input_tokens", {JNum(0), JNum(Million), None})})}

\* records that vary in timestamp, uuid and flags
StampInputs ==
    {JDict(t @@ ts @@ u @@ l @@ me @@ [message |-> JDict([role |-> S("user"), content |-> JStr(<<"A">>)])]) :
        t \in Req("type", {S("user"), S("summary")}),
        ts \in Opt("timestamp", {JStr(<<"T1", "Z">>), JStr(<<"T2">>), JStr(<<"garbage">>),
                                 JStr(<<>>), JNum(5), None}),
        u \in Opt("uuid", {S("u1")}),
        l \in Opt("leafUuid", {S("l1")}),
        me \in Opt("isMeta", {JBool(TRUE)})}

\* a decoded line that is not an object
ScalarRecord == JNum(42)

NormInputs == ShapeInputs \cup UsageInputs \cup StampInputs \cup {ScalarRecord}

(***************************************************************************)
(* The normalizer on its own: one decoded record in, one message (or None) *)
(* out.                                                                    *)
(***************************************************************************)
Pending == [pending |-> TRUE]

Idle == [idle |-> TRUE]

\* the dashboard module is not in use
NoDashboard ==
    sessions = Idle /\ _cache_key = Idle /\ _tool_call_type_cache = Idle /\ threads = Idle

\* the metadata _parse_message receives: _extract_conversation_metadata
\* leaves started_at unset
FreshTimes == [started_at |-> None, ended_at |-> None, message_count |-> 0]

\* the content value _parse_message flattens
RawContent(raw_msg) ==
    IF ~IsDict(raw_msg) THEN JStr(<<>>)
    ELSE IF Get(raw_msg, "type", S("unknown")) = S("summary")
        THEN Get(raw_msg, "summary", JStr(<<>>))
    ELSE IF IsDict(Get(raw_msg, "message", EmptyDict))
        THEN Get(Get(raw_msg, "message", EmptyDict), "content", JStr(<<>>))
    ELSE JStr(<<>>)

NormInit ==
    /\ \/ raw \in NormInputs
       \/ \E t \in Req("type", {S("user"), S("assistant")}),
             ro \in Opt("role", {S("user"), S("assistant")}),
             c \in LongContents,
             r \in Opt("toolUseResult", Payloads) :
                raw = ListRecord(t, ro, c, r)
    /\ out = Pending
    /\ file = Idle /\ result = Idle /\ dir = Idle /\ batch = Idle
    /\ NoDashboard

\* parser._parse_message(raw, metadata)
Normalize ==
    /\ out = Pending
    /\ out' = _parse_message(raw, FreshTimes)
    /\ UNCHANGED <<raw, file, result, dir, batch, dashboard>>

\* parser._extract_content(content)
Flatten ==
    /\ out = Pending
    /\ out' = [flattened |-> _extract_content(RawContent(raw))]
    /\ UNCHANGED <<raw, file, result, dir, batch, dashboard>>

NormNext == Normalize \/ Flatten

SpecNorm == NormInit /\ [][NormNext]_vars

\* out holds a ParsedMessage
Produced == "role" \in DOMAIN out

\* out holds the result of _extract_content
Flattened == "flattened" \in DOMAIN out

NormTypeOK ==
    /\ Produced => /\ out.content \in Seq(STRING)
                   /\ out.cost_usd.milli \in Nat /\ out.cost_usd.nano \in 0..999999

(***************************************************************************)
(* Vocabulary of the statements about the normalizer                       *)
(***************************************************************************)
EnumeratedRoles == {S("user"), S("assistant"), S("tool"), S("summary")}

\* the role a record has before reclassification: summary for a summary
\* record, else message.role, else the record type
DerivedRole(raw_msg) ==
    IF Get(raw_msg, "type", S("unknown")) = S("summary") THEN S("summary")
    ELSE Get(Get(raw_msg, "message", EmptyDict), "role", Get(raw_msg, "type", S("unknown")))

\* the content is an array holding a block of type tool_result
ContainsToolResult(content) ==
    /\ IsList(content)
    /\ \E i \in 1..Len(content.list) :
          /\ IsDict(content.list[i])
          /\ "type" \in DOMAIN content.list[i].dict
          /\ content.list[i].dict["type"] = S("tool_result")

\* the tool_use_ids carried by the tool_result blocks of a content array
ToolResultIds(content) ==
    IF ~IsList(content) THEN {}
    ELSE {content.list[i].dict["tool_use_id"] :
            i \in {j \in 1..Len(content.list) :
                      /\ IsDict(content.list[j])
                      /\ "type" \in DOMAIN content.list[j].dict
                      /\ content.list[j].dict["type"] = S("tool_result")
                      /\ "tool_use_id" \in DOMAIN content.list[j].dict}}

RECURSIVE SubDicts(_)
\* every object found in a JSON value, at any depth
SubDicts(v) ==
    IF IsDict(v) THEN {v} \cup UNION {SubDicts(v.dict[k]) : k \in DOMAIN v.dict}
    ELSE IF IsList(v) THEN UNION {SubDicts(v.list[i]) : i \in 1..Len(v.list)}
    ELSE {}

\* C1: every message the normalizer produces has a role among user,
\* assistant, tool, summary; no other raw type or role string comes through.
C1_RoleEnumerated == Produced => out.role \in EnumeratedRoles

\* C2: the content of a produced message never contains the rendered form
\* of a raw structured content block of the record.
C2_FlattenedTextOnly ==
    Produced => \A b \in SubDicts(RawContent(raw)) : ~IsInfix(PyRepr(b), out.content)

\* C7 as stated: (derived role user and a tool_result block in the content
\* array) or a top-level toolUseResult gives role tool.
C7_AsStated ==
    Produced /\ ( \/ DerivedRole(raw) = S("user") /\ ContainsToolResult(RawContent(raw))
                  \/ Has(raw, "toolUseResult") )
        => out.role = S("tool")

\* C7: a record whose derived role is user, and that has a tool_result block
\* in its content array or a top-level toolUseResult, is normalized to role
\* tool.
C7_Reclassification ==
    Produced /\ DerivedRole(raw) = S("user")
             /\ (ContainsToolResult(RawContent(raw)) \/ Has(raw, "toolUseResult"))
        => out.role = S("tool")

C7_Witness ==
    /\ Produced
    /\ DerivedRole(raw) = S("user")
    /\ RawContent(raw) = JList(<<JDict([type |-> S("tool_result"), tool_use_id |-> S("x")])>>)
    /\ ~Has(raw, "toolUseResult")
    /\ out.role = S("tool")

C7_WitnessToolUseResult ==
    /\ Produced
    /\ DerivedRole(raw) = S("user")
    /\ ~ContainsToolResult(RawContent(raw))
    /\ Has(raw, "toolUseResult")
    /\ out.role = S("tool")

\* what one block of a content list contributes to the flattened text
Contribution(block) ==
    IF GetOrNone(block, "type") = S("text") /\ Has(block, "text")
        THEN <<block.dict["text"].str>>
    ELSE IF GetOrNone(block, "type") = S("thinking") /\ Has(block, "thinking")
        THEN <<(<<"[Thinking: ">> \o block.dict["thinking"].str \o <<"]">>)>>
    ELSE IF GetOrNone(block, "type") = S("tool_use") THEN <<>>
    ELSE IF Has(block, "content") THEN <<_extract_content(block.dict["content"])>>
    ELSE <<>>

RECURSIVE Contributions(_)
Contributions(blocks) ==
    IF Len(blocks) = 0 THEN <<>>
    ELSE Contribution(blocks[1]) \o Contributions(SubSeq(blocks, 2, Len(blocks)))

IsBlockList(content) ==
    IsList(content) /\ \A i \in 1..Len(content.list) : IsDict(content.list[i])

\* C8: flattening a list of blocks gives the newline-join, in block order, of
\* each text block's text, [Thinking: t] for each thinking block and the
\* flattening of each nested content; tool_use blocks add nothing; the two
\* text blocks A, B give "A\nB".
C8_ListFlattening ==
    Flattened /\ IsBlockList(RawContent(raw)) =>
        /\ out.flattened = Join(<<NL>>, Contributions(RawContent(raw).list))
        /\ RawContent(raw) = JList(<<TextBlock(<<"A">>), TextBlock(<<"B">>)>>)
              => out.flattened = <<"A", NL, "B">>

C8_Witness ==
    /\ Flattened
    /\ RawContent(raw) = JList(<<TextBlock(<<"A">>), TextBlock(<<"B">>)>>)
    /\ out.flattened = <<"A", NL, "B">>

C8_WitnessMixed ==
    /\ Flattened
    /\ RawContent(raw) = JList(<<ThinkingBlock(<<"T">>),
                                JDict([type |-> S("tool_result"), tool_use_id |-> S("x"),
                                       content |-> JList(<<TextBlock(<<"A">>)>>)])>>)
    /\ out.flattened = <<"[Thinking: ", "T", "]", NL, "A">>

\* the payload survives in tool_uses
PayloadKept(tool_uses, payload) ==
    \/ tool_uses = payload
    \/ /\ IsDict(tool_uses) /\ IsDict(payload)
       /\ \A k \in DOMAIN payload.dict \ {"tool_use_id"} :
             k \in DOMAIN tool_uses.dict /\ tool_uses.dict[k] = payload.dict[k]
    \/ /\ IsDict(tool_uses) /\ ~IsDict(payload)
       /\ \E k \in DOMAIN tool_uses.dict : tool_uses.dict[k] = payload

\* C9: with a top-level toolUseResult, tool_uses is that payload, kept, with
\* the tool_use_id of the record's tool_result block added when there is one,
\* whatever the shape of the payload.
C9_PayloadAugmented ==
    Produced /\ Has(raw, "toolUseResult") =>
        LET payload == raw.dict["toolUseResult"]
            ids == ToolResultIds(RawContent(raw))
        IN IF ids = {} THEN out.tool_uses = payload
           ELSE /\ IsDict(out.tool_uses)
                /\ "tool_use_id" \in DOMAIN out.tool_uses.dict
                /\ out.tool_uses.dict["tool_use_id"] \in ids
                /\ PayloadKept(out.tool_uses, payload)

\* the usage object of the record's message, when all its counts are numbers
UsageOf(raw_msg) == Get(Get(raw_msg, "message", EmptyDict), "usage", EmptyDict)

Count(usage, key) == Get(usage, key, JNum(0))

CarriesUsage(raw_msg) ==
    /\ Has(Get(raw_msg, "message", EmptyDict), "usage")
    /\ IsDict(UsageOf(raw_msg))
    /\ \A k \in {"input_tokens", "output_tokens", "cache_creation_input_tokens",
                 "cache_read_input_tokens"} : IsNum(Count(UsageOf(raw_msg), k))

\* (input x in_price + output x out_price + creation x in_price
\*    + read x in_price x 0.1) / 1,000,000
CostFormula(usage, price) ==
    MoneyAdd(MoneyAdd(PerMillion(Count(usage, "input_tokens").num
                                   + Count(usage, "cache_creation_input_tokens").num, price.input),
                      PerMillion(Count(usage, "output_tokens").num, price.output)),
             PerMillionTenth(Count(usage, "cache_read_input_tokens").num, price.input))

\* the pricing-table entry of a model id, the default entry for an unknown id
PriceOf(model) ==
    IF model = S("claude-3-opus-20240229") THEN [input |-> 1500, output |-> 7500]
    ELSE IF model = S("claude-3-haiku-20240307") THEN [input |-> 25, output |-> 125]
    ELSE [input |-> 300, output |-> 1500]

\* C10: an assistant message carrying usage data has cost_usd given by the
\* cost formula at the prices of its model (default entry for an unknown
\* model) and token_count = output_tokens; haiku with 1,000,000 input and
\* 1,000,000 output tokens costs 1.50.
C10_CostFormula ==
    Produced /\ out.role = S("assistant") /\ CarriesUsage(raw) =>
        /\ out.cost_usd = CostFormula(UsageOf(raw), PriceOf(out.metadata.model))
        /\ out.token_count = Count(UsageOf(raw), "output_tokens")

AccountingFields ==
    {"token_count", "input_tokens", "output_tokens", "cache_creation_tokens",
     "cache_read_tokens"}

\* C11: a message whose final role is user, tool or summary has token_count
\* 0, cost_usd 0 and the four token-breakdown fields 0, also when its raw
\* record carries a usage object.
C11_NonAssistantZero ==
    Produced /\ out.role \in {S("user"), S("tool"), S("summary")} =>
        /\ out.cost_usd = ZeroCost
        /\ \A k \in AccountingFields : out[k] = JNum(0)

\* a tool response whose record reports a million input and output tokens
C11_Witness ==
    /\ Produced
    /\ out.role = S("tool")
    /\ CarriesUsage(raw)
    /\ Count(UsageOf(raw), "input_tokens") = JNum(Million)
    /\ Count(UsageOf(raw), "output_tokens") = JNum(Million)
    /\ out.cost_usd = ZeroCost
    /\ out.input_tokens = JNum(0)

(***************************************************************************)
(* One file written line by line, then parsed.                             *)
(***************************************************************************)
\* most lines in a file
MaxLines == 3

\* the file's modification time, as an instant
Mtime == 9

ExampleUser ==
    JDict([type |-> S("user"),
           message |-> JDict([role |-> S("user"), content |-> JStr(<<"hi">>)])])

ExampleAssistant ==
    JDict([type |-> S("assistant"),
           message |-> JDict([role |-> S("assistant"),
                              content |-> JList(<<TextBlock(<<"hello">>)>>),
                              usage |-> JDict([output_tokens |-> JNum(3)])])])

StampedUser ==
    JDict([type |-> S("user"), uuid |-> S("u1"), timestamp |-> JStr(<<"T1", "Z">>),
           gitBranch |-> S("main"), cwd |-> S("/w"),
           message |-> JDict([role |-> S("user"), content |-> JStr(<<"A">>)])])

BadMessage == JDict([type |-> S("user"), uuid |-> S("b1"), message |-> S("oops")])

BadSidechain ==
    JDict([type |-> S("user"), uuid |-> S("b2"), message |-> S("oops"),
           isSidechain |-> JBool(TRUE), agentId |-> S("a1"), sessionId |-> S("p1")])

SummaryRecord == JDict([type |-> S("summary"), summary |-> JStr(<<"Sum">>), leafUuid |-> S("l1")])

FileRecords ==
    {ExampleUser, ExampleAssistant, StampedUser, BadMessage, BadSidechain,
     SummaryRecord, ScalarRecord}

FileLines ==
    {BlankLine(0), BlankLine(2), MalformedLine, DeepLine} \cup {JsonLine(r) : r \in FileRecords}

NewFile(name) == [name |-> name, project |-> "proj", lines |-> <<>>, mtime |-> Mtime]

Init ==
    /\ file = NewFile(1)
    /\ result = Idle
    /\ raw = Idle /\ out = Idle /\ dir = Idle /\ batch = Idle
    /\ NoDashboard

\* a line is appended to the file
WriteLine ==
    /\ result = Idle
    /\ Len(file.lines) < MaxLines
    /\ \E line \in FileLines : file' = [file EXCEPT !.lines = Append(@, line)]
    /\ UNCHANGED <<raw, out, result, dir, batch, dashboard>>

\* parser.parse_conversation_file(file)
ParseFile ==
    /\ result = Idle
    /\ result' = parse_conversation_file(file)
    /\ UNCHANGED <<raw, out, file, dir, batch, dashboard>>

Next == WriteLine \/ ParseFile

Spec == Init /\ [][Next]_vars

\* parse_conversation_file has run
Parsed == "status" \in DOMAIN result

Returned == Parsed /\ result.status = "ok"

(***************************************************************************)
(* A directory written file by file, then parsed as a batch.               *)
(***************************************************************************)
\* most files in the directory
MaxFiles == 2

\* most lines in a file of the directory
MaxBatchLines == 2

BatchLines == {MalformedLine} \cup {JsonLine(r) : r \in {ExampleUser, StampedUser}}

BatchInit ==
    /\ dir = <<>>
    /\ batch = Idle
    /\ raw = Idle /\ out = Idle /\ file = Idle /\ result = Idle
    /\ NoDashboard

\* a new, empty .jsonl file appears in the directory
AddFile ==
    /\ batch = Idle
    /\ Len(dir) < MaxFiles
    /\ dir' = Append(dir, NewFile(Len(dir) + 1))
    /\ UNCHANGED <<raw, out, file, result, batch, dashboard>>

\* a line is appended to the newest file
AddLine ==
    /\ batch = Idle
    /\ Len(dir) > 0
    /\ Len(dir[Len(dir)].lines) < MaxBatchLines
    /\ \E line \in BatchLines :
          dir' = [dir EXCEPT ![Len(dir)].lines = Append(@, line)]
    /\ UNCHANGED <<raw, out, file, result, batch, dashboard>>

\* parse_conversation_files(directory)
ParseFiles ==
    /\ batch = Idle
    /\ batch' = [flat |-> parse_conversation_files(dir)]
    /\ UNCHANGED <<raw, out, file, result, dir, dashboard>>

\* parse_conversation_files_grouped(directory)
ParseFilesGrouped ==
    /\ batch = Idle
    /\ batch' = [grouped |-> parse_conversation_files_grouped(dir)]
    /\ UNCHANGED <<raw, out, file, result, dir, dashboard>>

BatchNext == AddFile \/ AddLine \/ ParseFiles \/ ParseFilesGrouped

SpecBatch == BatchInit /\ [][BatchNext]_vars

FlatDone == "flat" \in DOMAIN batch

GroupedDone == "grouped" \in DOMAIN batch

(***************************************************************************)
(* Statements about reading and parsing files                              *)
(***************************************************************************)
Range(seq) == {seq[i] : i \in 1..Len(seq)}

\* the values of the decodable lines, in file order
Decodable(lines) ==
    LET js == SelectSeq(lines, LAMBDA l : "json" \in DOMAIN l)
    IN [i \in 1..Len(js) |-> js[i].json]

\* C3: the read never aborts on a bad line, and the decoded records are
\* exactly the decodable non-blank lines, in file order.
C3_ReadNeverAborts ==
    Parsed => /\ ~(result.status = "raised" /\ result.stage = "read")
              /\ result.raw_messages = Decodable(file.lines)

\* normalizing the record raises
FailsToNormalize(r) == IsNone(_parse_message(r, FreshTimes))

Unstamped(messages) == [i \in 1..Len(messages) |-> [messages[i] EXCEPT !.timestamp = None]]

\* the messages of the records that normalize, in order, timestamps aside
MessagesOfTheOthers(raw_messages) ==
    LET good == SelectSeq(raw_messages, LAMBDA r : ~FailsToNormalize(r))
    IN [i \in 1..Len(good) |-> [_parse_message(good[i], FreshTimes) EXCEPT !.timestamp = None]]

\* the parse got as far as normalizing the records
ReachedNormalizer == Parsed /\ (result.status = "raised" => result.stage = "finalize")

ShapeDeviant(r) == IsDict(r) /\ Has(r, "message") /\ ~IsDict(r.dict["message"])

\* C5: a record whose message is not an object is never fatal to the file,
\* and is recovered as a message with absent content and absent tool uses.
C5_ShapeDeviationRecovered ==
    Parsed => \A i \in 1..Len(result.raw_messages) :
        ShapeDeviant(result.raw_messages[i]) =>
            /\ ~(result.status = "raised" /\ result.stage = "metadata")
            /\ result.status = "ok" =>
                  \E k \in 1..Len(result.messages) :
                      /\ result.messages[k].uuid = result.raw_messages[i].dict["uuid"]
                      /\ result.messages[k].content = <<>>
                      /\ result.messages[k].tool_uses = None

\* the decoded records the normalizer did not drop
Kept(raw_messages) == {i \in 1..Len(raw_messages) : ~FailsToNormalize(raw_messages[i])}

\* the file of the two-record user / assistant example
ExampleFile == file.lines = <<JsonLine(ExampleUser), JsonLine(ExampleAssistant)>>

\* C14: when parse_conversation_file returns, metadata.message_count is the
\* length of the returned list, which is the number of decoded records the
\* normalizer did not drop; the two-record example gives 2 messages and the
\* second has token_count 3.
C14_MessageCount ==
    /\ Returned =>
        /\ result.metadata.message_count = Len(result.messages)
        /\ Len(result.messages) = Cardinality(Kept(result.raw_messages))
    /\ Parsed /\ ExampleFile =>
        /\ Returned
        /\ Len(result.messages) = 2
        /\ result.metadata.message_count = 2
        /\ result.messages[2].token_count = JNum(3)

C14_Witness ==
    /\ Returned /\ ExampleFile
    /\ result.metadata.message_count = 2
    /\ result.messages[2].token_count = JNum(3)

\* three records, one of them dropped
C14_WitnessDropped ==
    /\ Returned
    /\ Len(result.raw_messages) = 3
    /\ Cardinality(Kept(result.raw_messages)) = 2
    /\ result.metadata.message_count = 2

\* every record dropped: an empty list and a count of 0
C14_WitnessAllDropped ==
    /\ Returned
    /\ Len(result.raw_messages) > 0
    /\ Len(result.messages) = 0
    /\ result.metadata.message_count = 0

\* the file has no decodable line
ZeroDecodable(f) == \A i \in 1..Len(f.lines) : "json" \notin DOMAIN f.lines[i]

WithoutEmptyFiles(directory) == SelectSeq(directory, LAMBDA f : ~ZeroDecodable(f))

\* C6: a file with zero decodable records fails to parse and adds no
\* metadata and no messages; the batch result is what the other files
\* alone give, and every file that parses has its metadata and messages in
\* the result.
C6_EmptyFileConfined ==
    /\ FlatDone =>
        /\ batch.flat = parse_conversation_files(WithoutEmptyFiles(dir))
        /\ \A i \in 1..Len(dir) :
            LET parsed == parse_conversation_file(dir[i]) IN
            /\ ZeroDecodable(dir[i]) =>
                /\ parsed.status = "raised"
                /\ \A c \in Range(batch.flat.all_conversations) : c.session_id # dir[i].name
                /\ \A m \in Range(batch.flat.all_messages) :
                      m.metadata.conversation_session_id # dir[i].name
            /\ parsed.status = "ok" =>
                /\ parsed.metadata \in Range(batch.flat.all_conversations)
                /\ \A m \in Range(parsed.messages) :
                      Tag(m, dir[i].name) \in Range(batch.flat.all_messages)
    /\ GroupedDone =>
        /\ batch.grouped = parse_conversation_files_grouped(WithoutEmptyFiles(dir))
        /\ \A i \in 1..Len(dir) :
            LET parsed == parse_conversation_file(dir[i]) IN
            /\ ZeroDecodable(dir[i]) =>
                /\ parsed.status = "raised"
                /\ \A g \in Range(batch.grouped) : g[1].session_id # dir[i].name
            /\ parsed.status = "ok" =>
                <<parsed.metadata, parsed.messages>> \in Range(batch.grouped)

C6_Witness ==
    /\ FlatDone
    /\ Len(dir) = 2
    /\ Len(dir[1].lines) > 0
    /\ ZeroDecodable(dir[1])
    /\ parse_conversation_file(dir[1]).error = "ValueError"
    /\ Len(batch.flat.all_conversations) = 1
    /\ batch.flat.all_conversations[1].session_id = dir[2].name
    /\ Len(batch.flat.all_messages) > 0

C6_WitnessGrouped ==
    /\ GroupedDone
    /\ Len(dir) = 2
    /\ ZeroDecodable(dir[1])
    /\ Len(batch.grouped) = 1
    /\ batch.grouped[1][1].session_id = dir[2].name

(***************************************************************************)
(* Timestamp repair on its own: a list of parsed messages, repaired, and   *)
(* repaired once more after the file may have been touched.  The code      *)
(* rewrites the list in place; raw keeps the list as it was handed in.     *)
(***************************************************************************)
\* longest message list handed to the repair
MaxMsgs == 3

MessageUuids == <<"m1", "m2", "m3", "m4", "m5">>

\* the timestamp field of a record: absent, naive, aware
RepairStamps == {None, JStr(<<"T1">>), JStr(<<"T2", "Z">>), JStr(<<"T3">>)}

\* the message _parse_message makes of the i-th record, whose timestamp is ts
StampedMessage(i, ts) ==
    _parse_message(
        JDict((IF IsNone(ts) THEN <<>> ELSE "timestamp" :> ts)
              @@ [type |-> S("user"), uuid |-> S(MessageUuids[i]),
                  message |-> JDict([role |-> S("user"), content |-> JStr(<<"A">>)])]),
        FreshTimes)

\* the message of an assistant record that calls a tool and carries usage
StampedCall(i, ts) ==
    _parse_message(
        JDict((IF IsNone(ts) THEN <<>> ELSE "timestamp" :> ts)
              @@ [type |-> S("assistant"), uuid |-> S(MessageUuids[i]),
                  cwd |-> S("/w"),
                  message |-> JDict([role |-> S("assistant"),
                                     content |-> JList(<<ToolUseBlock("Bash", "t1")>>),
                                     usage |-> JDict([input_tokens |-> JNum(2),
                                                      output_tokens |-> JNum(3)])])]),
        FreshTimes)

RepairKinds == {"user", "assistant"}

RepairInit ==
    /\ \E n \in 0..MaxMsgs : \E ts \in [1..n -> RepairStamps] :
       \E kind \in [1..n -> RepairKinds] :
          raw = [messages |-> [i \in 1..n |-> IF kind[i] = "user"
                                              THEN StampedMessage(i, ts[i])
                                              ELSE StampedCall(i, ts[i])]]
    /\ file = NewFile(1)
    /\ out = Idle
    /\ result = Idle /\ dir = Idle /\ batch = Idle
    /\ NoDashboard

\* parser._fix_missing_timestamps(messages, file_path)
Repair ==
    /\ out = Idle
    /\ out' = [repaired |-> _fix_missing_timestamps(raw.messages, file),
               argument |-> ArgumentAfterRepair(raw.messages, file)]
    /\ UNCHANGED <<raw, file, result, dir, batch, dashboard>>

\* the file is modified after the repair
Touch ==
    /\ "repaired" \in DOMAIN out /\ "again" \notin DOMAIN out
    /\ file.mtime = Mtime
    /\ file' = [file EXCEPT !.mtime = Mtime + 1]
    /\ UNCHANGED <<raw, out, result, dir, batch, dashboard>>

\* parser._fix_missing_timestamps on the list it has already repaired
RepairAgain ==
    /\ "repaired" \in DOMAIN out /\ "again" \notin DOMAIN out
    /\ out' = [repaired |-> out.repaired,
               argument |-> out.argument,
               again |-> _fix_missing_timestamps(out.repaired, file)]
    /\ UNCHANGED <<raw, file, result, dir, batch, dashboard>>

RepairNext == Repair \/ Touch \/ RepairAgain

SpecRepair == RepairInit /\ [][RepairNext]_vars

Repaired == "repaired" \in DOMAIN out

RepairedTwice == "again" \in DOMAIN out

\* the file still has the modification time the repair read
Untouched == file.mtime = Mtime

\* the input list lacks the timestamp of message k
Lacking(k) == IsNone(raw.messages[k].timestamp)

\* the messages after k that had a timestamp in the input
StampedAfter(k) == {j \in (k + 1)..Len(raw.messages) : ~Lacking(j)}

\* C12: after the repair, every message that lacked a timestamp has the
\* timestamp of the nearest following message that had one in the input, or
\* the file modification time when no following message had one.
C12_RepairFallback ==
    Repaired /\ Untouched =>
        /\ Len(out.repaired) = Len(raw.messages)
        /\ \A k \in 1..Len(raw.messages) :
              Lacking(k) =>
                out.repaired[k].timestamp =
                    IF StampedAfter(k) = {} THEN file_mtime(file)
                    ELSE raw.messages[Min(StampedAfter(k))].timestamp

\* a gap filled from the message after it, before a trailing message that
\* resolves to the modification time
C12_Witness ==
    /\ Repaired /\ Untouched
    /\ Len(raw.messages) = 3
    /\ Lacking(1) /\ ~Lacking(2) /\ Lacking(3)
    /\ out.repaired[1].timestamp = raw.messages[2].timestamp
    /\ out.repaired[3].timestamp = file_mtime(file)

\* a trailing run of two messages without timestamp
C12_WitnessTrailingRun ==
    /\ Repaired /\ Untouched
    /\ Len(raw.messages) = 3
    /\ ~Lacking(1) /\ Lacking(2) /\ Lacking(3)
    /\ out.repaired[2].timestamp = file_mtime(file)
    /\ out.repaired[3].timestamp = file_mtime(file)

\* C13: the repair is idempotent: applied to a list it has repaired, it
\* returns a list equal to it, message by message and field by field.
C13_RepairIdempotent == RepairedTwice => out.again = out.repaired

\* a list with two gaps, repaired again after the file was touched
C13_Witness ==
    /\ RepairedTwice
    /\ file.mtime # Mtime
    /\ Len(raw.messages) = 3
    /\ Lacking(1) /\ Lacking(2)
    /\ out.again = out.repaired
    /\ out.repaired # raw.messages

\* C27: the repair changes nothing but missing timestamps: the output has
\* the length and order of the input, a message that had a timestamp is
\* unchanged, and a repaired message equals its original in every field
\* except timestamp.
C27_OnlyTimestamps ==
    Repaired =>
        /\ Len(out.repaired) = Len(raw.messages)
        /\ \A k \in 1..Len(raw.messages) :
              /\ ~Lacking(k) => out.repaired[k] = raw.messages[k]
              /\ Lacking(k) => /\ ~IsNone(out.repaired[k].timestamp)
                               /\ [out.repaired[k] EXCEPT !.timestamp = None] = raw.messages[k]

\* a tool call with token counts, repaired between two messages that kept
\* their timestamps
C27_Witness ==
    /\ Repaired
    /\ Len(raw.messages) = 3
    /\ ~Lacking(1) /\ Lacking(2) /\ ~Lacking(3)
    /\ raw.messages[2].role = S("assistant")
    /\ raw.messages[2].output_tokens = JNum(3)
    /\ Truthy(raw.messages[2].tool_uses)
    /\ out.repaired[2].timestamp = raw.messages[3].timestamp
    /\ out.repaired[2].output_tokens = JNum(3)
    /\ out.repaired[1] = raw.messages[1]

\* C28: the repair leaves its input alone: after the call the sequence that
\* was passed in still holds the original messages at every position, the
\* ones without timestamp included.
C28_InputLeftAlone == Repaired => out.argument = raw.messages

(***************************************************************************)
(* src/cc_session_search/dashboard_utils.py                                *)
(*                                                                         *)
(* A call returns [value |-> v] or leaves with [raised |-> exception].     *)
(* A dict built by the module is [map |-> f], f a function from keys.      *)
(***************************************************************************)
\* the strings that occur inside one chunk of text
Substrings(chunk) ==
    IF chunk = "listResources" THEN {"listResources", "list"}
    ELSE IF chunk = "listresources" THEN {"listresources", "list"}
    ELSE IF chunk = "readResource" THEN {"readResource", "read"}
    ELSE IF chunk = "readresource" THEN {"readresource", "read"}
    ELSE IF chunk = "[Thinking: " THEN {"[Thinking: ", "[Thinking:"}
    ELSE IF chunk = "[Calling tool: " THEN {"[Calling tool: ", "[Calling tool:"}
    ELSE {chunk}

\* `needle in text` for a str text
Contains(needle, text) == \E i \in 1..Len(text) : needle \in Substrings(text[i])

\* text.lower()
lower(text) == [i \in 1..Len(text) |-> Lower(text[i])]

\* text.startswith(prefix), for a prefix that is one chunk
startswith(text, prefix) == Len(text) > 0 /\ text[1] = prefix

\* `key in v` is defined for v (no TypeError)
CanContain(v) == IsDict(v) \/ IsStr(v) \/ IsList(v)

\* `key in v` for a str key: a key of a dict, a substring of a str, an item
\* of a list
In(key, v) ==
    IF IsDict(v) THEN key \in DOMAIN v.dict
    ELSE IF IsStr(v) THEN Contains(key, v.str)
    ELSE IF IsList(v) THEN \E i \in 1..Len(v.list) : v.list[i] = S(key)
    ELSE FALSE

\* the value can be a key of a dict
Hashable(v) == ~IsList(v) /\ ~IsDict(v)

Raised(e) == [raised |-> e]

IsRaised(r) == "raised" \in DOMAIN r

\* `msg.tool_uses and 'tool_calls' in msg.tool_uses`, where it does not raise
HasToolCalls(msg) == Truthy(msg.tool_uses) /\ In("tool_calls", msg.tool_uses)

\* that test raises: `in` on a number or on True
ToolCallsTestRaises(msg) == Truthy(msg.tool_uses) /\ ~CanContain(msg.tool_uses)

\* the items of `for tool_call in msg.tool_uses['tool_calls']`
ToolCallItems(tool_uses) ==
    IF ~IsDict(tool_uses) THEN Raised("TypeError")           \* str or list subscripted by a str
    ELSE LET tool_calls == tool_uses.dict["tool_calls"] IN
         IF IsList(tool_calls) THEN [items |-> tool_calls.list]
         ELSE IF IsStr(tool_calls) \/ IsDict(tool_calls) THEN
            (IF Truthy(tool_calls) THEN [items |-> <<S("k")>>]  \* its characters / its keys
             ELSE [items |-> <<>>])
         ELSE Raised("TypeError")                             \* not iterable

\* the call typing that never looks at the input of a Read call
CallType_ReadBasic(tool_call) ==
    IF ~IsDict(tool_call) THEN Raised("AttributeError")
    ELSE
    LET tool_id == GetOrNone(tool_call, "id")
        tool_name == Get(tool_call, "name", JStr(<<>>))
        typed(t) == IF Hashable(tool_id) THEN [id |-> tool_id, type |-> t]
                    ELSE Raised("TypeError")
    IN  IF ~Truthy(tool_id) THEN [skip |-> TRUE]
        ELSE IF tool_name = S("Task") THEN typed("subagent")
        ELSE IF ~IsStr(tool_name) THEN Raised("AttributeError")
        ELSE IF startswith(tool_name.str, "mcp__") THEN typed("mcp")
        ELSE IF tool_name = S("Skill") THEN typed("skill")
        ELSE typed("basic")

\* the branch of build_tool_call_type_map for one tool call: the type for
\* its id, [skip] for a call without id
CallType(tool_call) ==
    IF ~IsDict(tool_call) THEN Raised("AttributeError")      \* tool_call.get
    ELSE
    LET tool_id == GetOrNone(tool_call, "id")
        tool_name == Get(tool_call, "name", JStr(<<>>))
        tool_input == Get(tool_call, "input", EmptyDict)
        typed(t) == IF Hashable(tool_id) THEN [id |-> tool_id, type |-> t]
                    ELSE Raised("TypeError")                 \* unhashable key
    IN  IF ~Truthy(tool_id) THEN [skip |-> TRUE]
        ELSE IF tool_name = S("Task") THEN typed("subagent")
        ELSE IF ~IsStr(tool_name) THEN Raised("AttributeError")   \* tool_name.startswith
        ELSE IF startswith(tool_name.str, "mcp__") THEN typed("mcp")
        ELSE IF tool_name = S("Skill") THEN typed("skill")
        ELSE IF tool_name = S("Read") THEN
            (IF ~IsDict(tool_input) THEN Raised("AttributeError") \* tool_input.get
             ELSE LET file_path == Get(tool_input, "file_path", JStr(<<>>)) IN
                  IF ~CanContain(file_path) THEN Raised("TypeError")
                  ELSE IF In(".claude/skills", file_path) THEN typed("skill")
                  ELSE typed("basic"))
        ELSE typed("basic")

\* d with d[key] = value, for a dict built by the module
Put(d, key, value) == [k \in (DOMAIN d) \cup {key} |-> IF k = key THEN value ELSE d[k]]

RECURSIVE TypeCalls(_, _)
\* the inner loop of build_tool_call_type_map over the calls of one message
TypeCalls(items, tool_call_types) ==
    IF Len(items) = 0 THEN [map |-> tool_call_types]
    ELSE LET t == CallType(Head(items)) IN
         IF IsRaised(t) THEN t
         ELSE IF "skip" \in DOMAIN t THEN TypeCalls(Tail(items), tool_call_types)
         ELSE TypeCalls(Tail(items), Put(tool_call_types, t.id, t.type))

RECURSIVE TypeMessages(_, _)
\* the loop of build_tool_call_type_map over the messages
TypeMessages(messages, tool_call_types) ==
    IF Len(messages) = 0 THEN [map |-> tool_call_types]
    ELSE LET msg == Head(messages) IN
         IF msg.role # S("assistant") THEN TypeMessages(Tail(messages), tool_call_types)
         ELSE IF ToolCallsTestRaises(msg) THEN Raised("TypeError")
         ELSE IF ~HasToolCalls(msg) THEN TypeMessages(Tail(messages), tool_call_types)
         ELSE LET calls == ToolCallItems(msg.tool_uses) IN
              IF IsRaised(calls) THEN calls
              ELSE LET typed == TypeCalls(calls.items, tool_call_types) IN
                   IF IsRaised(typed) THEN typed
                   ELSE TypeMessages(Tail(messages), typed.map)

\* build_tool_call_type_map(messages): [map |-> tool_id -> type], or raised
build_tool_call_type_map(messages) == TypeMessages(messages, <<>>)

Value(v) == [value |-> v]

\* the MCP category of a call name that starts with mcp__
McpCallCategory(tool_name) ==
    IF Contains("listResources", tool_name) \/ Contains("list", lower(tool_name))
        THEN "mcp_list"
    ELSE IF Contains("readResource", tool_name) \/ Contains("read", lower(tool_name))
        THEN "mcp_read"
    ELSE "mcp_tool"

RECURSIVE CallCategory(_)
\* the loop of get_message_type over the tool calls of an assistant message
CallCategory(items) ==
    IF Len(items) = 0 THEN Value("basic_tool_call")
    ELSE LET tool_call == Head(items) IN
    IF ~IsDict(tool_call) THEN Raised("AttributeError")          \* tool_call.get
    ELSE
    LET tool_name == Get(tool_call, "name", JStr(<<>>))
        tool_input == Get(tool_call, "input", EmptyDict)
    IN  IF tool_name = S("Task") THEN Value("subagent_call")
        ELSE IF ~IsStr(tool_name) THEN Raised("AttributeError")  \* tool_name.startswith
        ELSE IF startswith(tool_name.str, "mcp__") THEN Value(McpCallCategory(tool_name.str))
        ELSE IF tool_name = S("Skill") THEN Value("skill_execute")
        ELSE IF tool_name = S("Read") THEN
            (IF ~IsDict(tool_input) THEN Raised("AttributeError")
             ELSE LET file_path == Get(tool_input, "file_path", JStr(<<>>)) IN
                  IF ~CanContain(file_path) THEN Raised("TypeError")
                  ELSE IF In(".claude/skills", file_path) THEN Value("skill_read")
                  ELSE CallCategory(Tail(items)))
        ELSE CallCategory(Tail(items))

\* get_message_type from "Fallback: check tool_name if present" to the
\* default of the tool branch
ResultFallback(msg) ==
    IF In("tool_name", msg.tool_uses) THEN
        (IF ~IsDict(msg.tool_uses) THEN Raised("AttributeError")     \* str.get, list.get
         ELSE LET tool_name == Get(msg.tool_uses, "tool_name", JStr(<<>>)) IN
              IF ~IsStr(tool_name) THEN Raised("AttributeError")     \* tool_name.startswith
              ELSE IF startswith(tool_name.str, "mcp__") THEN Value("mcp_result")
              ELSE IF tool_name = S("Skill") THEN Value("skill_result")
              ELSE Value("basic_tool_result"))
    ELSE Value("basic_tool_result")

\* get_message_type after `call_type = _tool_call_type_cache.get(tool_use_id)`
ResultFor(call_type, msg) ==
    IF call_type = "mcp" THEN Value("mcp_result")
    ELSE IF call_type = "skill" THEN Value("skill_result")
    ELSE IF call_type = "subagent" THEN Value("subagent_result")
    ELSE IF call_type = "basic" THEN Value("basic_tool_result")
    ELSE ResultFallback(msg)

\* get_message_type up to the use of the call-type map: the value returned,
\* the exception raised, or [lookup |-> tool_use_id] when the message is a
\* tool result that carries a tool_use_id
Prelude(msg) ==
    LET has_system_reminder == Contains("<system-reminder>", lower(msg.content))
        is_thinking == Contains("[Thinking:", msg.content)
        is_meta == msg.metadata.is_meta
    IN  IF Truthy(is_meta) THEN Value("meta")
        ELSE IF msg.role = S("user") /\ ~has_system_reminder THEN Value("user")
        ELSE IF has_system_reminder \/ msg.role = S("system") THEN Value("basic_tool_result")
        ELSE IF msg.role = S("assistant") THEN
            (IF ToolCallsTestRaises(msg) THEN Raised("TypeError")
             ELSE IF HasToolCalls(msg) THEN
                LET calls == ToolCallItems(msg.tool_uses) IN
                IF IsRaised(calls) THEN calls ELSE CallCategory(calls.items)
             ELSE IF is_thinking THEN Value("assistant_thinking")
             ELSE Value("assistant_text"))
        ELSE IF msg.role = S("tool") THEN
            (IF ~Truthy(msg.tool_uses) THEN Value("basic_tool_result")
             ELSE IF ~CanContain(msg.tool_uses) THEN Raised("TypeError")   \* 'agentId' in
             ELSE IF In("agentId", msg.tool_uses) THEN Value("subagent_result")
             ELSE IF IsDict(msg.tool_uses) /\ Has(msg.tool_uses, "tool_use_id")
                THEN [lookup |-> msg.tool_uses.dict["tool_use_id"]]
             ELSE ResultFallback(msg))
        ELSE IF msg.metadata.original_type = S("file-history-snapshot")
            THEN Value("file-history-snapshot")
        ELSE Value("basic_tool_result")

\* d.get(key) for a dict built by the module
Lookup(d, key) == IF key \in DOMAIN d THEN d[key] ELSE "None"

\* get_message_type(msg, all_messages) with the module globals at entry;
\* all_messages is None or the id() of a list whose contents are items.
\* Gives the outcome of the call and the module globals at exit.
get_message_type(msg, all_messages, items, cache_key, cache) ==
    LET p == Prelude(msg)
        same == [outcome |-> p, _cache_key |-> cache_key, _tool_call_type_cache |-> cache]
    IN  IF "lookup" \notin DOMAIN p THEN same
        ELSE IF IsNone(all_messages) \/ Len(items) = 0
            THEN [same EXCEPT !.outcome = ResultFallback(msg)]
        ELSE
        LET built == IF cache_key # all_messages
                     THEN build_tool_call_type_map(items) ELSE [map |-> cache]
        IN  IF IsRaised(built)
                THEN [outcome |-> built, _cache_key |-> all_messages,
                      _tool_call_type_cache |-> cache]
            ELSE [outcome |-> IF Hashable(p.lookup)
                              THEN ResultFor(Lookup(built.map, p.lookup), msg)
                              ELSE Raised("TypeError"),
                  _cache_key |-> all_messages,
                  _tool_call_type_cache |-> built.map]

RECURSIVE MapCalls(_, _, _)
\* the inner loop of build_tool_call_mapping over the calls of message msg_idx
MapCalls(items, msg_idx, tool_id_to_call) ==
    IF Len(items) = 0 THEN [map |-> tool_id_to_call]
    ELSE LET tool_call == Head(items) IN
         IF ~IsDict(tool_call) THEN Raised("AttributeError")
         ELSE LET tool_id == GetOrNone(tool_call, "id") IN
              IF ~Truthy(tool_id) THEN MapCalls(Tail(items), msg_idx, tool_id_to_call)
              ELSE IF ~Hashable(tool_id) THEN Raised("TypeError")
              ELSE MapCalls(Tail(items), msg_idx, Put(tool_id_to_call, tool_id, msg_idx))

RECURSIVE MapMessages(_, _, _, _)
\* the loop of build_tool_call_mapping from position msg_idx (counted from 0)
MapMessages(messages, msg_idx, tool_id_to_call, tool_id_to_result) ==
    IF msg_idx >= Len(messages)
        THEN [tool_id_to_call |-> tool_id_to_call, tool_id_to_result |-> tool_id_to_result]
    ELSE
    LET msg == messages[msg_idx + 1]
        is_call == msg.role = S("assistant") /\ HasToolCalls(msg)
        calls == IF is_call THEN ToolCallItems(msg.tool_uses) ELSE [items |-> <<>>]
        mapped == IF IsRaised(calls) THEN calls
                  ELSE MapCalls(calls.items, msg_idx, tool_id_to_call)
        is_result == /\ msg.role = S("tool")
                     /\ Truthy(msg.tool_uses)
                     /\ IsDict(msg.tool_uses)
                     /\ Has(msg.tool_uses, "tool_use_id")
    IN  IF msg.role = S("assistant") /\ ToolCallsTestRaises(msg) THEN Raised("TypeError")
        ELSE IF IsRaised(mapped) THEN mapped
        ELSE IF is_result /\ ~Hashable(msg.tool_uses.dict["tool_use_id"])
            THEN Raised("TypeError")
        ELSE MapMessages(messages, msg_idx + 1, mapped.map,
                         IF is_result
                         THEN Put(tool_id_to_result, msg.tool_uses.dict["tool_use_id"], msg_idx)
                         ELSE tool_id_to_result)

\* build_tool_call_mapping(messages): the two dicts, or the exception raised
build_tool_call_mapping(messages) == MapMessages(messages, 0, <<>>, <<>>)

(***************************************************************************)
(* Callers of the dashboard module, one after the other: the message lists *)
(* of two sessions grow, and get_message_type and build_tool_call_mapping  *)
(* are called on them.  A list is known to the module by its id().         *)
(***************************************************************************)
\* most messages in the two lists together
MaxSession == 3

\* an assistant record that calls one tool
CallRecord(id, name) ==
    JDict([type |-> S("assistant"),
           message |-> JDict([role |-> S("assistant"),
                              content |-> JList(<<JDict([type |-> S("tool_use"),
                                                         id |-> id,
                                                         name |-> JStr(name)])>>)])])

\* a user record that carries the result of the call id
ResultRecord(id, text, payload) ==
    JDict([type |-> S("user"),
           message |-> JDict([role |-> S("user"),
                              content |-> JList(<<JDict([type |-> S("tool_result"),
                                                         tool_use_id |-> S(id),
                                                         content |-> JStr(text)])>>)]),
           toolUseResult |-> payload])

McpName == <<"mcp__", "srv", "__", "run">>

StdoutPayload == JDict([stdout |-> S("o")])

SnapshotRecord == JDict([type |-> S("file-history-snapshot")])

NumberPayloadRecord ==
    JDict([type |-> S("assistant"),
           message |-> JDict([role |-> S("assistant"), content |-> JStr(<<"x">>)]),
           toolUseResult |-> JNum(5)])

DashboardRecords ==
    {ExampleUser,
     CallRecord(S("t1"), McpName),
     CallRecord(S("t1"), <<"Bash">>),
     CallRecord(JStr(<<>>), <<"Bash">>),
     ResultRecord("t1", <<"r">>, StdoutPayload),
     ResultRecord("t1", <<"r">>, JDict([agentId |-> S("a1")])),
     ResultRecord("t1", <<"<system-reminder>", "r">>, StdoutPayload),
     ResultRecord("t1", <<"r">>, JDict([tool_name |-> S("Skill")])),
     SnapshotRecord,
     NumberPayloadRecord}

\* the messages the parser makes of them
DashboardMessages == {_parse_message(r, FreshTimes) : r \in DashboardRecords}

ListIds == {1, 2}

\* id(all_messages) for the list l
ListRef(l) == [id |-> l]

ClassifyInit ==
    /\ sessions = [l \in ListIds |-> <<>>]
    /\ _cache_key = None
    /\ _tool_call_type_cache = <<>>
    /\ threads = Idle
    /\ out = Idle
    /\ raw = Idle /\ file = Idle /\ result = Idle /\ dir = Idle /\ batch = Idle

\* a caller appends a message to one of the lists
AppendMessage ==
    /\ Len(sessions[1]) + Len(sessions[2]) < MaxSession
    /\ \E l \in ListIds, msg \in DashboardMessages :
          sessions' = [sessions EXCEPT ![l] = Append(@, msg)]
    /\ out' = Idle
    /\ UNCHANGED <<raw, file, result, dir, batch, _cache_key, _tool_call_type_cache, threads>>

\* get_message_type(all_messages[i], all_messages), or with all_messages
\* left out
GetMessageType ==
    \E l \in ListIds : \E i \in 1..Len(sessions[l]) : \E all_messages \in {ListRef(l), None} :
        LET call == get_message_type(sessions[l][i], all_messages, sessions[l],
                                     _cache_key, _tool_call_type_cache)
        IN  /\ out' = [msg |-> sessions[l][i], list |-> l, all_messages |-> all_messages,
                       outcome |-> call.outcome]
            /\ _cache_key' = call._cache_key
            /\ _tool_call_type_cache' = call._tool_call_type_cache
            /\ UNCHANGED <<raw, file, result, dir, batch, sessions, threads>>

\* build_tool_call_mapping(all_messages)
BuildToolCallMapping ==
    \E l \in ListIds :
        /\ out' = [list |-> l, mapping |-> build_tool_call_mapping(sessions[l])]
        /\ UNCHANGED <<raw, file, result, dir, batch, dashboard>>

ClassifyNext == AppendMessage \/ GetMessageType \/ BuildToolCallMapping

SpecClassify == ClassifyInit /\ [][ClassifyNext]_vars

\* get_message_type has just been called
Classified == "outcome" \in DOMAIN out

\* that call was given the list
WithList == Classified /\ out.all_messages = ListRef(out.list)

\* build_tool_call_mapping has just been called
Mapped == "mapping" \in DOMAIN out

Categories ==
    {"user", "assistant_text", "assistant_thinking", "basic_tool_call", "basic_tool_result",
     "mcp_list", "mcp_read", "mcp_tool", "mcp_result", "skill_execute", "skill_read",
     "skill_result", "subagent_call", "subagent_result", "meta", "file_history_snapshot"}

\* C15: for every message the parser can produce and every session list,
\* get_message_type returns one of the sixteen categories, and nothing else.
C15_ClosedCategories ==
    Classified => \E c \in Categories : out.outcome = Value(c)

\* the result category that goes with a call type
ResultCategory ==
    [mcp |-> "mcp_result", skill |-> "skill_result", subagent |-> "subagent_result",
     basic |-> "basic_tool_result"]

\* the call-type map of the list the classified message is in
SessionCallTypes == build_tool_call_type_map(sessions[out.list])

\* the classified message is a tool result, not meta, that carries a
\* tool_use_id
ToolResultWithId ==
    /\ out.msg.role = S("tool")
    /\ ~Truthy(out.msg.metadata.is_meta)
    /\ IsDict(out.msg.tool_uses)
    /\ Has(out.msg.tool_uses, "tool_use_id")

\* C16: a tool-role message, not meta, whose tool_use_id matches a call
\* that the call-type map typed gets the result category of that type,
\* whatever agent identifier, system-reminder marker or tool-name hint it
\* carries.
C16_CorrelatedResult ==
    WithList /\ ToolResultWithId /\ ~IsRaised(SessionCallTypes)
             /\ out.msg.tool_uses.dict["tool_use_id"] \in DOMAIN SessionCallTypes.map
        => out.outcome =
              Value(ResultCategory[SessionCallTypes.map[out.msg.tool_uses.dict["tool_use_id"]]])

\* the outcome of the same call made first, with no call before it
FirstCallOutcome ==
    get_message_type(out.msg, out.all_messages, sessions[out.list], None, <<>>).outcome

\* C17: the category returned for a message is the category a first call
\* with no history returns for the same message and the same list contents.
C17_NoHiddenState == Classified => out.outcome = FirstCallOutcome

\* the ids of the tool calls an assistant message issues
CallIds(msg) ==
    IF msg.role = S("assistant") /\ IsDict(msg.tool_uses) /\ Has(msg.tool_uses, "tool_calls")
          /\ IsList(msg.tool_uses.dict["tool_calls"])
    THEN LET tool_calls == msg.tool_uses.dict["tool_calls"].list
         IN  {tool_calls[k].dict["id"] :
                 k \in {j \in 1..Len(tool_calls) :
                            IsDict(tool_calls[j]) /\ Has(tool_calls[j], "id")}}
    ELSE {}

\* the ids a tool-role message answers
ResultIds(msg) ==
    IF msg.role = S("tool") /\ IsDict(msg.tool_uses) /\ Has(msg.tool_uses, "tool_use_id")
    THEN {msg.tool_uses.dict["tool_use_id"]}
    ELSE {}

\* ids[i] being the ids of message i of a list: map sends each of its keys
\* to a position (from 0) of a message whose ids include the key, and every
\* id of every message is a key
Correlates(map, ids) ==
    /\ \A id \in DOMAIN map :
          /\ map[id] \in 0..(Len(ids) - 1)
          /\ id \in ids[map[id] + 1]
    /\ \A i \in 1..Len(ids) : ids[i] \subseteq DOMAIN map

\* C19: for every message list build_tool_call_mapping returns the two
\* maps; every key of tool_id_to_call is sent to the position of an
\* assistant message that issues a call with that id, every key of
\* tool_id_to_result to the position of a tool-role message with that
\* tool_use_id, and an id is a key exactly when such a message is in the list.
C19_MappingCorrect ==
    Mapped =>
        /\ ~IsRaised(out.mapping)
        /\ Correlates(out.mapping.tool_id_to_call,
                      [i \in 1..Len(sessions[out.list]) |-> CallIds(sessions[out.list][i])])
        /\ Correlates(out.mapping.tool_id_to_result,
                      [i \in 1..Len(sessions[out.list]) |-> ResultIds(sessions[out.list][i])])

\* the positions (from 0) of the tool-role messages that answer id
ResultPositions(messages, id) ==
    {i \in 0..(Len(messages) - 1) : id \in ResultIds(messages[i + 1])}

\* C20: in the list of one session every id that is a key of both maps
\* has its result after its call, and at most one tool-role message
\* answers it.
C20_OneLaterResult ==
    Mapped /\ ~IsRaised(out.mapping) =>
        \A id \in (DOMAIN out.mapping.tool_id_to_call) \cap (DOMAIN out.mapping.tool_id_to_result) :
            /\ out.mapping.tool_id_to_result[id] > out.mapping.tool_id_to_call[id]
            /\ Cardinality(ResultPositions(sessions[out.list], id)) <= 1

(***************************************************************************)
(* Two threads, each classifying the messages of its own session with      *)
(* `for msg in messages: get_message_type(msg, messages)`.  The interpreter *)
(* may switch threads between any two statements of get_message_type that  *)
(* read or write the module globals.                                       *)
(***************************************************************************)
\* most messages in the list of one thread
MaxPass == 2

ThreadMessages ==
    {_parse_message(r, FreshTimes) :
        r \in {CallRecord(S("t1"), McpName), CallRecord(S("t1"), <<"Bash">>),
               ResultRecord("t1", <<"r">>, StdoutPayload)}}

ThreadLists == UNION {[1..n -> ThreadMessages] : n \in 1..MaxPass}

ThreadsInit ==
    /\ sessions \in [ListIds -> ThreadLists]
    /\ _cache_key = None
    /\ _tool_call_type_cache = <<>>
    /\ threads = [t \in ListIds |-> [pc |-> "enter", i |-> 1, categories |-> <<>>]]
    /\ out = Idle
    /\ raw = Idle /\ file = Idle /\ result = Idle /\ dir = Idle /\ batch = Idle

\* the message thread t is classifying
Current(t) == sessions[t][threads[t].i]

\* thread t has the category of its current message and goes to the next
Return(t, category) ==
    threads' = [threads EXCEPT ![t] = [pc |-> "enter", i |-> @.i + 1,
                                       categories |-> Append(@.categories, category)]]

Goto(t, pc) == threads' = [threads EXCEPT ![t].pc = pc]

\* thread t calls get_message_type and runs it up to `if all_messages:`
Enter(t) ==
    /\ threads[t].pc = "enter"
    /\ threads[t].i <= Len(sessions[t])
    /\ IF "lookup" \in DOMAIN Prelude(Current(t))
       THEN Goto(t, "test")
       ELSE Return(t, Prelude(Current(t)))
    /\ UNCHANGED <<raw, out, file, result, dir, batch, sessions, _cache_key,
                   _tool_call_type_cache>>

\* `if _cache_key != cache_key_val:`
TestKey(t) ==
    /\ threads[t].pc = "test"
    /\ Goto(t, IF _cache_key # ListRef(t) THEN "set_key" ELSE "get")
    /\ UNCHANGED <<raw, out, file, result, dir, batch, sessions, _cache_key,
                   _tool_call_type_cache>>

\* `_cache_key = cache_key_val`
SetKey(t) ==
    /\ threads[t].pc = "set_key"
    /\ _cache_key' = ListRef(t)
    /\ Goto(t, "build")
    /\ UNCHANGED <<raw, out, file, result, dir, batch, sessions, _tool_call_type_cache>>

\* `_tool_call_type_cache = build_tool_call_type_map(all_messages)`
Build(t) ==
    /\ threads[t].pc = "build"
    /\ LET built == build_tool_call_type_map(sessions[t]) IN
       IF IsRaised(built)
       THEN /\ Return(t, built)
            /\ UNCHANGED _tool_call_type_cache
       ELSE /\ Goto(t, "get")
            /\ _tool_call_type_cache' = built.map
    /\ UNCHANGED <<raw, out, file, result, dir, batch, sessions, _cache_key>>

\* `call_type = _tool_call_type_cache.get(tool_use_id)` and the returns
\* after it
GetCallType(t) ==
    /\ threads[t].pc = "get"
    /\ LET tool_use_id == Current(t).tool_uses.dict["tool_use_id"] IN
       Return(t, IF Hashable(tool_use_id)
                 THEN ResultFor(Lookup(_tool_call_type_cache, tool_use_id), Current(t))
                 ELSE Raised("TypeError"))
    /\ UNCHANGED <<raw, out, file, result, dir, batch, sessions, _cache_key,
                   _tool_call_type_cache>>

ThreadsNext ==
    \E t \in ListIds : Enter(t) \/ TestKey(t) \/ SetKey(t) \/ Build(t) \/ GetCallType(t)

SpecThreads == ThreadsInit /\ [][ThreadsNext]_vars

\* the category of message i of session t when the session is classified
\* alone
AloneCategory(t, i) ==
    get_message_type(sessions[t][i], ListRef(t), sessions[t], None, <<>>).outcome

\* C18: under every interleaving of two threads that classify two
\* different sessions, each message gets the category it gets when its
\* session is classified alone.
C18_ThreadIsolation ==
    threads # Idle =>
        \A t \in ListIds : \A i \in 1..Len(threads[t].categories) :
            threads[t].categories[i] = AloneCategory(t, i)

(***************************************************************************)
(* The metadata scan on its own: a list of decoded records grows, and      *)
(* _extract_conversation_metadata is applied to it.                        *)
(***************************************************************************)
\* most records in the scanned list
MaxScan == 3

\* records of a main session: any gitBranch, any cwd
PlainRecords ==
    {JDict(b @@ c @@ [type |-> S("user")]) :
        b \in Opt("gitBranch", {JStr(<<>>), S("main"), S("dev")}),
        c \in Opt("cwd", {S("/a"), S("/b")})}

\* an assistant message whose text names the agent type
ExploreMessage ==
    JDict([role |-> S("assistant"), content |-> JList(<<TextBlock(<<"Explore">>)>>)])

\* records of a subagent log, and records that carry only one of the two
\* marks
SidechainRecords ==
    {JDict(b @@ m @@ [type |-> S("user"), isSidechain |-> JBool(TRUE),
                      agentId |-> S(a[1]), sessionId |-> S(a[2])]) :
        a \in {<<"a1", "p1">>, <<"a2", "p2">>},
        b \in Opt("gitBranch", {S("main")}),
        m \in Opt("message", {ExploreMessage})}
    \cup {JDict([type |-> S("user"), isSidechain |-> JBool(TRUE), agentId |-> JStr(<<>>),
                 sessionId |-> S("p3")]),
          JDict([type |-> S("user"), isSidechain |-> JBool(FALSE), agentId |-> S("a3"),
                 sessionId |-> S("p3")])}

ScanRecords == PlainRecords \cup SidechainRecords

ScanInit ==
    /\ raw = <<>>
    /\ out = Idle
    /\ file = NewFile(1)
    /\ result = Idle /\ dir = Idle /\ batch = Idle
    /\ NoDashboard

\* one more record is decoded from the file
AppendRecord ==
    /\ out = Idle
    /\ Len(raw) < MaxScan
    /\ \E r \in ScanRecords : raw' = Append(raw, r)
    /\ UNCHANGED <<out, file, result, dir, batch, dashboard>>

\* self._extract_conversation_metadata(file_path, raw_messages)
ExtractMetadata ==
    /\ out = Idle
    /\ Len(raw) > 0
    /\ out' = [metadata |-> _extract_conversation_metadata(file, raw)]
    /\ UNCHANGED <<raw, file, result, dir, batch, dashboard>>

ScanNext == AppendRecord \/ ExtractMetadata

SpecScan == ScanInit /\ [][ScanNext]_vars

\* _extract_conversation_metadata has returned
Extracted == "metadata" \in DOMAIN out /\ "exc" \notin DOMAIN out.metadata

\* the positions of the records whose field key is present and non-empty
WithField(records, key) ==
    {i \in 1..Len(records) : Has(records[i], key) /\ Truthy(records[i].dict[key])}

\* the field key of the first record that has a non-empty one, else None
FirstField(records, key) ==
    IF WithField(records, key) = {} THEN None
    ELSE records[Min(WithField(records, key))].dict[key]

\* C21: git_branch is the gitBranch of the first record that has a
\* non-empty one and working_directory is the cwd of the first record that
\* has a non-empty one, for every record sequence.
C21_FirstBranchAndCwd ==
    Extracted =>
        /\ out.metadata.git_branch = FirstField(raw, "gitBranch")
        /\ out.metadata.working_directory = FirstField(raw, "cwd")

\* the positions of the records with isSidechain truthy and a non-empty
\* agentId
SidechainMarked(records) ==
    {i \in 1..Len(records) : /\ Truthy(GetOrNone(records[i], "isSidechain"))
                             /\ Truthy(GetOrNone(records[i], "agentId"))}

\* C22: the session is marked as a subagent exactly when some record has
\* isSidechain truthy and a non-empty agentId, and then agent_id and
\* parent_session_id come from the first such record.
C22_SubagentFromFirstMarked ==
    Extracted =>
        /\ out.metadata.is_subagent = (SidechainMarked(raw) # {})
        /\ SidechainMarked(raw) # {} =>
              /\ out.metadata.agent_id = raw[Min(SidechainMarked(raw))].dict["agentId"]
              /\ out.metadata.parent_session_id =
                    raw[Min(SidechainMarked(raw))].dict["sessionId"]

(***************************************************************************)
(* One parsed message on its own, given to get_message_type and to         *)
(* build_tool_call_type_map.                                               *)
(***************************************************************************)
\* a tool_use block whose id, name and input may be missing
CallBlock(id, name, input) ==
    JDict(id @@ name @@ input @@ [type |-> S("tool_use")])

CallNames ==
    {<<"Task">>, <<"mcp__", "srv", "__", "listResources">>, <<"mcp__", "srv", "__", "readResource">>,
     McpName, <<"Skill">>, <<"Read">>, <<"Bash">>}

CallInputs ==
    {JDict([file_path |-> JStr(<<"/h/", ".claude/skills", "/x">>)]),
     JDict([file_path |-> JStr(<<"/x">>)]), S("s")}

ToolUseBlocks ==
    {CallBlock(id, name, input) :
        id \in Req("id", {S("t1"), JStr(<<>>)}),
        name \in Opt("name", {JStr(n) : n \in CallNames}),
        input \in Opt("input", CallInputs)}

\* what comes before the call in the content of the message
Preambles ==
    {<<>>, <<ThinkingBlock(<<"t">>)>>, <<TextBlock(<<"<system-reminder>", "r">>)>>,
     <<TextBlock(<<"hello">>)>>}

MessageRecord(role, blocks, flags) ==
    JDict(flags @@ [type |-> S(role),
                    message |-> JDict([role |-> S(role), content |-> JList(blocks)])])

\* assistant records with one call, and user and assistant records with
\* none
SingleRecords ==
    {MessageRecord("assistant", p \o <<b>>, <<>>) : p \in Preambles, b \in ToolUseBlocks}
    \cup {MessageRecord(role, p, flags) :
             role \in {"user", "assistant"},
             p \in Preambles \ {<<>>},
             flags \in Opt("isMeta", {JBool(TRUE)})}

SingleInit ==
    /\ raw \in SingleRecords
    /\ out = Idle
    /\ file = Idle /\ result = Idle /\ dir = Idle /\ batch = Idle
    /\ NoDashboard

\* the message of the record
SingleMessage == _parse_message(raw, FreshTimes)

\* get_message_type(msg), the list left out
ClassifySingle ==
    /\ out = Idle
    /\ out' = [msg |-> SingleMessage,
               outcome |-> get_message_type(SingleMessage, None, <<>>, None, <<>>).outcome]
    /\ UNCHANGED <<raw, file, result, dir, batch, dashboard>>

\* build_tool_call_type_map([msg])
TypeSingle ==
    /\ out = Idle
    /\ out' = [msg |-> SingleMessage, types |-> build_tool_call_type_map(<<SingleMessage>>)]
    /\ UNCHANGED <<raw, file, result, dir, batch, dashboard>>

SingleNext == ClassifySingle \/ TypeSingle

SpecSingle == SingleInit /\ [][SingleNext]_vars

\* get_message_type has returned for an assistant message that is not meta
AssistantClassified ==
    /\ "outcome" \in DOMAIN out
    /\ out.msg.role = S("assistant")
    /\ ~Truthy(out.msg.metadata.is_meta)

\* C23: for an assistant message that is not meta the thinking marker is
\* tested before the tool calls: a message whose content carries the marker
\* is assistant_thinking.
C23_ThinkingFirst ==
    AssistantClassified /\ Contains("[Thinking:", out.msg.content)
        => out.outcome = Value("assistant_thinking")

AssistantCategories ==
    {"assistant_text", "assistant_thinking", "basic_tool_call", "mcp_list", "mcp_read",
     "mcp_tool", "skill_execute", "skill_read", "subagent_call"}

\* C24: the system-reminder rule applies to user and system messages only:
\* a user message that is not meta is user without the marker and
\* basic_tool_result with it, and an assistant message gets an assistant
\* category whether or not its content has the marker.
C24_ReminderRule ==
    "outcome" \in DOMAIN out /\ ~Truthy(out.msg.metadata.is_meta) =>
        /\ out.msg.role = S("user") =>
              out.outcome = IF Contains("<system-reminder>", lower(out.msg.content))
                            THEN Value("basic_tool_result") ELSE Value("user")
        /\ out.msg.role = S("assistant") /\ ~IsRaised(out.outcome) =>
              \E c \in AssistantCategories : out.outcome = Value(c)

\* the family of each call category
Family ==
    [subagent_call |-> "subagent", mcp_list |-> "mcp", mcp_read |-> "mcp", mcp_tool |-> "mcp",
     skill_execute |-> "skill", skill_read |-> "skill", basic_tool_call |-> "basic"]

\* the one block of the record, when the record is just one call with a
\* non-empty id
OnlyCall == raw.dict["message"].dict["content"].list[1]

JustOneCall ==
    /\ Len(raw.dict["message"].dict["content"].list) = 1
    /\ Has(OnlyCall, "id") /\ Truthy(OnlyCall.dict["id"])

\* the category get_message_type returns for the message
SingleCategory == get_message_type(out.msg, None, <<>>, None, <<>>).outcome

\* build_tool_call_type_map has run on the message
Typed == "types" \in DOMAIN out

\* C25: for every tool call with a non-empty id, the type the call-type
\* map gives the id is the family of the category get_message_type returns
\* for an assistant message, not meta, that carries just that call; where
\* one of the two raises on the call, so does the other.
C25_SameNameRules ==
    Typed /\ JustOneCall =>
        IF IsRaised(out.types) THEN IsRaised(SingleCategory)
        ELSE /\ ~IsRaised(SingleCategory)
             /\ SingleCategory.value \in DOMAIN Family
             /\ DOMAIN out.types.map = {OnlyCall.dict["id"]}
             /\ out.types.map[OnlyCall.dict["id"]] = Family[SingleCategory.value]

\* a Read call on a skill file: skill and skill_read
C25_Witness ==
    /\ Typed /\ JustOneCall
    /\ ~IsRaised(out.types)
    /\ out.types.map[OnlyCall.dict["id"]] = "skill"
    /\ SingleCategory = Value("skill_read")

\* an mcp call that lists: mcp and mcp_list
C25_WitnessMcp ==
    /\ Typed /\ JustOneCall
    /\ ~IsRaised(out.types)
    /\ out.types.map[OnlyCall.dict["id"]] = "mcp"
    /\ SingleCategory = Value("mcp_list")

(***************************************************************************)
(* The message browsers: src/cc_session_search/dashboard.py                *)
(* (render_conversation_view) and src/cc_session_search/conversation_view.py *)
(* (render_message_browser, render_single_message).  The user picks the    *)
(* type filter and the page; the browser shows a header `[index] label`    *)
(* for each message of the page, the label carrying `Result at [i]` and    *)
(* `Called from [i]` links.  Indices count from 0 as in the source.        *)
(***************************************************************************)
\* most messages in the browsed conversation
MaxBrowse == 3

messages_per_page == 20

BrowseRecords ==
    {ExampleUser,
     CallRecord(S("t1"), <<"Bash">>),
     CallRecord(S("t1"), McpName),
     ResultRecord("t1", <<"r">>, StdoutPayload),
     SnapshotRecord}

BrowseMessages == {_parse_message(r, FreshTimes) : r \in BrowseRecords}

\* is_mcp_call of the nested get_message_type: some call's name starts
\* with mcp__
AnyMcpName(items) ==
    \E k \in 1..Len(items) : startswith(Get(items[k], "name", JStr(<<>>)).str, "mcp__")

\* the get_message_type nested in dashboard.render_conversation_view
LocalMessageType(msg) ==
    LET is_thinking == Contains("[Thinking:", msg.content)
        is_tool_call == Contains("[Calling tool:", msg.content)
        has_system_reminder == Contains("<system-reminder>", lower(msg.content))
        is_mcp_call == /\ msg.role = S("assistant")
                       /\ HasToolCalls(msg)
                       /\ AnyMcpName(ToolCallItems(msg.tool_uses).items)
    IN  IF msg.role = S("user") THEN "user"
        ELSE IF msg.role = S("assistant") THEN
            (IF is_thinking THEN "assistant_thinking"
             ELSE IF is_mcp_call THEN "assistant_mcp_call"
             ELSE IF is_tool_call THEN "assistant_tool_call"
             ELSE "assistant_text")
        ELSE IF msg.role = S("tool") THEN "tool"
        ELSE IF has_system_reminder THEN "system"
        ELSE msg.role.str

\* the keys of message_types in dashboard.render_conversation_view
message_types ==
    {"user", "assistant_text", "assistant_thinking", "assistant_mcp_call",
     "assistant_tool_call", "tool", "system", "file-history-snapshot"}

\* filter_groups of render_message_browser
filter_groups ==
    [User |-> {"user"},
     Assistant |-> {"assistant_text", "assistant_thinking"},
     AllTools |-> {"basic_tool_call", "basic_tool_result", "mcp_list", "mcp_read",
                   "mcp_tool", "mcp_result", "skill_execute", "skill_read",
                   "skill_result", "subagent_call", "subagent_result"},
     Meta |-> {"meta"},
     McpOnly |-> {"mcp_list", "mcp_read", "mcp_tool", "mcp_result"},
     SkillsOnly |-> {"skill_execute", "skill_read", "skill_result"},
     SubagentsOnly |-> {"subagent_call", "subagent_result"}]

RECURSIVE SelectPositions(_, _, _)
\* the positions idx, idx + 1, ... of the messages whose type is selected,
\* in list order: the filtering list comprehension
SelectPositions(types, idx, selected_types) ==
    IF idx >= Len(types) THEN <<>>
    ELSE (IF types[idx + 1] \in selected_types THEN <<idx>> ELSE <<>>)
         \o SelectPositions(types, idx + 1, selected_types)

\* total_pages for n filtered messages
TotalPages(n) == (n + messages_per_page - 1) \div messages_per_page

\* the pages the user can be on: the slider exists for more than one page,
\* and nothing is rendered when total_pages is 0
Pages(n) == IF TotalPages(n) > 1 THEN 1..TotalPages(n) ELSE {1}

\* range(start_idx, end_idx) of the page
PageRange(page, n) ==
    LET start_idx == (page - 1) * messages_per_page
        end_idx == IF start_idx + messages_per_page < n
                   THEN start_idx + messages_per_page ELSE n
    IN  start_idx .. (end_idx - 1)

\* d[key] as a set: empty when the key is absent
LinkTo(d, key) == IF key \in DOMAIN d THEN {d[key]} ELSE {}

\* the calls of msg whose id is set and has a result in the map
CallsWithResult(items, tool_id_to_result) ==
    {k \in 1..Len(items) : /\ Truthy(Get(items[k], "id", JStr(<<>>)))
                           /\ Get(items[k], "id", JStr(<<>>)) \in DOMAIN tool_id_to_result}

Max(set) == CHOOSE x \in set : \A y \in set : y <= x

\* matching_call_idx: the call index of a tool message's tool_use_id
MatchingCall(msg, tool_id_to_call) ==
    IF /\ msg.role = S("tool")
       /\ Truthy(msg.tool_uses) /\ IsDict(msg.tool_uses) /\ Has(msg.tool_uses, "tool_use_id")
    THEN LinkTo(tool_id_to_call, msg.tool_uses.dict["tool_use_id"])
    ELSE {}

\* the items of msg.tool_uses['tool_calls'] where the browsers loop over them
CallsOf(msg) ==
    IF msg.role = S("assistant") /\ HasToolCalls(msg)
    THEN ToolCallItems(msg.tool_uses).items ELSE <<>>

\* tool_result_idx of dashboard.render_conversation_view: the result of the
\* last call that has one
LastResult(items, hits, tool_id_to_result) ==
    IF hits = {} THEN {} ELSE {tool_id_to_result[items[Max(hits)].dict["id"]]}

\* tool_result_idx of render_single_message: only the first call is looked
\* up (the loop breaks after it)
FirstResult(items, tool_id_to_result) ==
    IF 1 \in CallsWithResult(items, tool_id_to_result)
    THEN {tool_id_to_result[items[1].dict["id"]]} ELSE {}

\* One header of dashboard.render_conversation_view: msg is message i of the
\* filtered list, position says where it is in `messages`.  The result link
\* is printed under the tool-call label only.
DashboardHeader(msg, i, position, mapping) ==
    [index |-> i,
     position |-> position,
     result_at |-> IF /\ msg.role = S("assistant")
                      /\ ~Contains("[Thinking:", msg.content)
                      /\ Contains("[Calling tool:", msg.content)
                   THEN LastResult(CallsOf(msg),
                                   CallsWithResult(CallsOf(msg), mapping.tool_id_to_result),
                                   mapping.tool_id_to_result)
                   ELSE {},
     called_from |-> MatchingCall(msg, mapping.tool_id_to_call)]

\* One header of conversation_view.render_single_message(msg, original_idx,
\* all_messages, tool_id_to_call, tool_id_to_result)
SingleHeader(msg, original_idx, mapping) ==
    [index |-> original_idx,
     position |-> original_idx,
     result_at |-> FirstResult(CallsOf(msg), mapping.tool_id_to_result),
     called_from |-> MatchingCall(msg, mapping.tool_id_to_call)]

RECURSIVE ClassifyAll(_, _, _, _, _)
RECURSIVE ClassifyRest(_, _, _, _)
\* get_message_type(msg, messages) for the messages from position idx on,
\* the module globals carried from call to call.  The globals change at the
\* first lookup only, so the later passes of the browser over the same list
\* (filtering, rendering) give every message the same category again.
ClassifyAll(messages, idx, all_messages, cache_key, cache) ==
    IF idx >= Len(messages)
        THEN [types |-> <<>>, _cache_key |-> cache_key, _tool_call_type_cache |-> cache]
    ELSE ClassifyRest(messages, idx, all_messages,
                      get_message_type(messages[idx + 1], all_messages, messages,
                                       cache_key, cache))

\* the outcomes that follow the first one
PrependType(value, rest) ==
    IF IsRaised(rest) THEN rest ELSE [rest EXCEPT !.types = <<value>> \o @]

\* the pass after the call for message idx has given `call`
ClassifyRest(messages, idx, all_messages, call) ==
    IF IsRaised(call.outcome)
        THEN [raised |-> call.outcome.raised, _cache_key |-> call._cache_key,
              _tool_call_type_cache |-> call._tool_call_type_cache]
    ELSE PrependType(call.outcome.value,
                     ClassifyAll(messages, idx + 1, all_messages,
                                 call._cache_key, call._tool_call_type_cache))

BrowseInit ==
    /\ raw = [messages |-> <<>>]
    /\ out = Idle
    /\ file = Idle /\ result = Idle /\ dir = Idle /\ batch = Idle
    /\ sessions = Idle /\ threads = Idle
    /\ _cache_key = None
    /\ _tool_call_type_cache = <<>>

\* the conversation that is browsed has one more message
LoadMessage ==
    /\ Len(raw.messages) < MaxBrowse
    /\ \E msg \in BrowseMessages : raw' = [messages |-> Append(raw.messages, msg)]
    /\ out' = Idle
    /\ UNCHANGED <<file, result, dir, batch, dashboard>>

\* the type of every message, by the nested get_message_type
LocalTypes(messages) == [k \in 1..Len(messages) |-> LocalMessageType(messages[k])]

\* the types the filter of dashboard.render_conversation_view offers
PresentTypes(messages) ==
    {LocalMessageType(messages[k]) : k \in 1..Len(messages)} \cap message_types

\* the headers dashboard.render_conversation_view writes for the page:
\* enumerate(filtered_messages[start_idx:end_idx], start=start_idx)
DashboardPage(messages, positions, page, mapping) ==
    [k \in 1..Cardinality(PageRange(page, Len(positions))) |->
        DashboardHeader(messages[positions[(page - 1) * messages_per_page + k] + 1],
                        (page - 1) * messages_per_page + k - 1,
                        positions[(page - 1) * messages_per_page + k],
                        mapping)]

\* the headers render_message_browser writes for the page:
\* filtered_messages_with_idx[start_idx:end_idx]
BrowserPage(messages, positions, page, mapping) ==
    [k \in 1..Cardinality(PageRange(page, Len(positions))) |->
        SingleHeader(messages[positions[(page - 1) * messages_per_page + k] + 1],
                     positions[(page - 1) * messages_per_page + k],
                     mapping)]

\* the browser of dashboard.render_conversation_view, for a choice of type
\* filter and page
RenderConversationView ==
    \E selected_types \in SUBSET PresentTypes(raw.messages) :
        \E page \in Pages(Len(SelectPositions(LocalTypes(raw.messages), 0, selected_types))) :
            /\ out' = [browser |-> "dashboard",
                       selected_types |-> selected_types,
                       page |-> page,
                       shown |-> DashboardPage(raw.messages,
                                               SelectPositions(LocalTypes(raw.messages), 0,
                                                               selected_types),
                                               page,
                                               build_tool_call_mapping(raw.messages))]
            /\ UNCHANGED <<raw, file, result, dir, batch, dashboard>>

\* filter_options: the groups with a message in them
FilterOptions(types) ==
    {g \in DOMAIN filter_groups : \E k \in 1..Len(types) : types[k] \in filter_groups[g]}

\* selected_types: the types of the selected groups
SelectedTypes(selected_filters) == UNION {filter_groups[g] : g \in selected_filters}

\* render_message_browser after the type of every message is known
BrowseClassified(classified) ==
    /\ _cache_key' = classified._cache_key
    /\ _tool_call_type_cache' = classified._tool_call_type_cache
    /\ UNCHANGED <<raw, file, result, dir, batch, sessions, threads>>
    /\ IF IsRaised(classified)
       THEN out' = [browser |-> "conversation_view", raised |-> classified.raised]
       ELSE \E selected_filters \in SUBSET FilterOptions(classified.types) :
               \E page \in Pages(Len(SelectPositions(classified.types, 0,
                                                     SelectedTypes(selected_filters)))) :
                   out' = [browser |-> "conversation_view",
                           selected_types |-> SelectedTypes(selected_filters),
                           page |-> page,
                           shown |-> BrowserPage(raw.messages,
                                                 SelectPositions(classified.types, 0,
                                                     SelectedTypes(selected_filters)),
                                                 page,
                                                 build_tool_call_mapping(raw.messages))]

\* conversation_view.render_message_browser(messages, key_suffix), for a
\* choice of filter groups and page (a file-history snapshot is in no filter
\* group, so render_single_message is never given one)
RenderMessageBrowser ==
    BrowseClassified(ClassifyAll(raw.messages, 0, ListRef(1),
                                 _cache_key, _tool_call_type_cache))

BrowseNext == LoadMessage \/ RenderConversationView \/ RenderMessageBrowser

SpecBrowse == BrowseInit /\ [][BrowseNext]_vars

\* a browser has shown a page
Browsed == "shown" \in DOMAIN out

\* C26: in every message browser, for every type filter and page, the index
\* shown for a message and the indices in the links are in one index space:
\* the message displayed with index i, when a link [i] is on the page, is
\* the message at position i of the list the links were computed from.
C26_OneIndexSpace ==
    Browsed =>
        \A e \in 1..Len(out.shown) : \A d \in 1..Len(out.shown) :
            out.shown[d].index \in out.shown[e].result_at \cup out.shown[e].called_from
                => out.shown[d].position = out.shown[d].index

(***************************************************************************)
(* Files whose records carry different timestamps, or none: summaries,     *)
(* messages stamped with an offset (aware) or without one (naive), and     *)
(* messages without timestamp.                                             *)
(***************************************************************************)
\* a user record with the timestamp ts
StampedRecord(ts) ==
    JDict([type |-> S("user"), uuid |-> S("u1"), timestamp |-> JStr(ts),
           message |-> JDict([role |-> S("user"), content |-> JStr(<<"A">>)])])

TimeRecords ==
    {SummaryRecord, ExampleUser, BadMessage,
     StampedRecord(<<"T1", "Z">>), StampedRecord(<<"T3", "Z">>), StampedRecord(<<"T2">>)}

TimeLines == {JsonLine(r) : r \in TimeRecords}

\* a record is appended to the file
WriteRecord ==
    /\ result = Idle
    /\ Len(file.lines) < MaxLines
    /\ \E line \in TimeLines : file' = [file EXCEPT !.lines = Append(@, line)]
    /\ UNCHANGED <<raw, out, result, dir, batch, dashboard>>

TimesNext == WriteRecord \/ ParseFile

SpecTimes == Init /\ [][TimesNext]_vars

\* the message of a summary record (the summary records of TimeRecords have
\* no timestamp of their own)
IsSummary(msg) == msg.metadata.original_type = S("summary")

\* C29: a summary record that has no timestamp of its own is given the
\* conversation start time: in the result of parse_conversation_file the
\* timestamp of every such summary message equals metadata.started_at.
C29_SummaryAtStart ==
    Returned =>
        \A k \in 1..Len(result.messages) :
            IsSummary(result.messages[k])
                => result.messages[k].timestamp = result.metadata.started_at

\* C30: when parse_conversation_file returns a non-empty message list, no
\* message is without timestamp, and metadata.started_at and
\* metadata.ended_at are the minimum and the maximum of the messages'
\* timestamps, so every timestamp lies between them.
C30_TimeRange ==
    Returned /\ Len(result.messages) > 0 =>
        /\ \A k \in 1..Len(result.messages) :
              /\ IsDatetime(result.messages[k].timestamp)
              /\ result.metadata.started_at.dt <= result.messages[k].timestamp.dt
              /\ result.messages[k].timestamp.dt <= result.metadata.ended_at.dt
        /\ \E k \in 1..Len(result.messages) :
              result.messages[k].timestamp = result.metadata.started_at
        /\ \E k \in 1..Len(result.messages) :
              result.messages[k].timestamp = result.metadata.ended_at

\* timestamps that fall in list order: the later one first, then a message
\* without timestamp that the repair stamps with the earlier one
C30_Witness ==
    /\ Returned
    /\ Len(result.messages) = 3
    /\ result.messages[1].timestamp.dt > result.messages[3].timestamp.dt
    /\ IsNone(_parse_message(result.raw_messages[2], FreshTimes).timestamp)
    /\ result.messages[2].timestamp = result.messages[3].timestamp
    /\ result.metadata.started_at = result.messages[3].timestamp
    /\ result.metadata.ended_at = result.messages[1].timestamp

\* a naive timestamp and the file modification time as the fallback
C30_WitnessMtime ==
    /\ Returned
    /\ Len(result.messages) = 2
    /\ result.messages[2].timestamp = file_mtime(file)
    /\ result.metadata.started_at = result.messages[1].timestamp
    /\ result.metadata.ended_at = file_mtime(file)
    /\ result.metadata.started_at # result.metadata.ended_at

====
